---- MODULE Spec2Model ----
(***************************************************************************)
(* Model of the photo editor's interactive transform engine                *)
(* (hooks/useImageTransform, the version with rotationGestureEnabled) and  *)
(* of the parts of components/Editor.tsx that drive it.                    *)
(*                                                                         *)
(* JavaScript numbers are modelled as exact extended rationals: a pair     *)
(* <<n, d>> with d > 0 and gcd(n, d) = 1 is the rational n/d, <<1, 0>> is  *)
(* +Infinity, <<-1, 0>> is -Infinity and <<0, 0>> is NaN.  Angles are      *)
(* integers in hundredths of a degree; Math.cos / Math.sin are exact on    *)
(* the twelve directions of the 3-4-5 triangle and the axes.               *)
(***************************************************************************)
EXTENDS Integers, Sequences, FiniteSets, TLC

\* ------------------------------------------------------------------------
\* Extended rational arithmetic (IEEE-754 special values, exact otherwise)
\* ------------------------------------------------------------------------
AbsInt(n) == IF n < 0 THEN -n ELSE n

SgnInt(n) == IF n < 0 THEN -1 ELSE IF n > 0 THEN 1 ELSE 0

RECURSIVE GCD(_, _)
GCD(a, b) == IF b = 0 THEN a ELSE GCD(b, a % b)

\* the canonical pair of n/d (d may be any integer; d = 0 gives Inf or NaN)
Norm(n, d) ==
  IF d = 0 THEN <<SgnInt(n), 0>>
  ELSE LET g == GCD(AbsInt(n), AbsInt(d))
           s == SgnInt(d)
       IN  <<(s * n) \div g, (s * d) \div g>>

R(n) == <<n, 1>>
Q(n, d) == Norm(n, d)
NaN == <<0, 0>>
PosInf == <<1, 0>>
NegInf == <<-1, 0>>

IsNaN(a) == a = NaN
IsFinite(a) == a[2] # 0

Neg(a) == <<-a[1], a[2]>>

Mul(a, b) == Norm(a[1] * b[1], a[2] * b[2])

Add(a, b) ==
  IF IsNaN(a) \/ IsNaN(b) THEN NaN
  ELSE IF ~IsFinite(a) /\ ~IsFinite(b) THEN (IF a = b THEN a ELSE NaN)
  ELSE IF ~IsFinite(a) THEN a
  ELSE IF ~IsFinite(b) THEN b
  ELSE Norm(a[1] * b[2] + b[1] * a[2], a[2] * b[2])

Sub(a, b) == Add(a, Neg(b))

\* a / b; a zero divisor is +0, so x/0 is Infinity with the sign of x and 0/0 is NaN
Div(a, b) == Mul(a, Norm(b[2], b[1]))

\* a < b as JavaScript evaluates it: false when either side is NaN
Lt(a, b) ==
  /\ ~IsNaN(a)
  /\ ~IsNaN(b)
  /\ a # b
  /\ IF ~IsFinite(a) THEN a = NegInf
     ELSE IF ~IsFinite(b) THEN b = PosInf
     ELSE a[1] * b[2] < b[1] * a[2]

Le(a, b) == ~IsNaN(a) /\ ~IsNaN(b) /\ (a = b \/ Lt(a, b))

\* a !== b: NaN differs from everything, itself included
StrictNeq(a, b) == IsNaN(a) \/ IsNaN(b) \/ a # b

MathMax(a, b) == IF IsNaN(a) \/ IsNaN(b) THEN NaN ELSE IF Lt(a, b) THEN b ELSE a

MathMin(a, b) == IF IsNaN(a) \/ IsNaN(b) THEN NaN ELSE IF Lt(b, a) THEN b ELSE a

MathAbs(a) == <<AbsInt(a[1]), a[2]>>

\* ------------------------------------------------------------------------
\* Angles: integers in hundredths of a degree
\* ------------------------------------------------------------------------
Deg(d) == d * 100

\* the angle of the 3-4-5 triangle, 53.13 degrees: cos = 3/5, sin = 4/5
Deg53 == 53 * 100 + 13

\* 90 - 53.13 degrees: cos = 4/5, sin = 3/5
Deg37 == Deg(90) - Deg53

\* the direction 0..11 of an angle: three per quadrant
Direction(a) ==
  LET m == a % Deg(360)
      r == m % Deg(90)
  IN  3 * (m \div Deg(90)) + (CASE r = 0 -> 0 [] r = Deg37 -> 1 [] r = Deg53 -> 2)

CosTable ==
  << R(1), Q(4, 5), Q(3, 5), R(0), Q(-3, 5), Q(-4, 5),
     R(-1), Q(-4, 5), Q(-3, 5), R(0), Q(3, 5), Q(4, 5) >>

\* Math.cos(angle * (Math.PI / 180))
MathCos(a) == CosTable[Direction(a) + 1]

\* Math.sin(angle * (Math.PI / 180)) = cos(angle - 90 degrees)
MathSin(a) == CosTable[Direction(a - Deg(90)) + 1]

\* JavaScript's remainder: the sign of the dividend
JsRem(a, n) == IF a >= 0 THEN a % n ELSE -((-a) % n)

\* mutant: the upper boundary 180 is folded to -180
normalizeAngleClosed(angle) ==
  LET newAngle == JsRem(angle, Deg(360))
  IN  IF newAngle >= Deg(180) THEN newAngle - Deg(360)
      ELSE IF newAngle <= -Deg(180) THEN newAngle + Deg(360)
      ELSE newAngle

\* mutant: the remainder alone, nothing folded into the interval
normalizeAngleRemainder(angle) == JsRem(angle, Deg(360))

normalizeAngle(angle) ==
  LET newAngle == JsRem(angle, Deg(360))
  IN  IF newAngle > Deg(180) THEN newAngle - Deg(360)
      ELSE IF newAngle <= -Deg(180) THEN newAngle + Deg(360)
      ELSE newAngle

\* ------------------------------------------------------------------------
\* Transform, Bounds and clampTransform
\* ------------------------------------------------------------------------
MAX_ZOOM == 5

\* Bounds | undefined: the empty sequence is undefined
NoBounds == << >>

Bounds(w, h) == << [width |-> w, height |-> h] >>

Known(b) == b # NoBounds

DEFAULT_FINETUNE_SETTINGS ==
  [brightness |-> 100, contrast |-> 100, saturation |-> 100, sepia |-> 0, vignette |-> 0]

\* useState<Transform>({ x: 0, y: 0, scale: 1, rotation: 0, flipX: false, flipY: false })
InitialTransform ==
  [x |-> R(0), y |-> R(0), scale |-> R(1), rotation |-> 0,
   flipX |-> FALSE, flipY |-> FALSE]

Point(px, py) == [x |-> px, y |-> py]

\* the bounding box of the image (w x h) turned by rot
rotatedImgWidth(w, h, rot) ==
  Add(MathAbs(Mul(w, MathCos(rot))), MathAbs(Mul(h, MathSin(rot))))

rotatedImgHeight(w, h, rot) ==
  Add(MathAbs(Mul(w, MathSin(rot))), MathAbs(Mul(h, MathCos(rot))))

minScaleToCover(ib, fb, rot) ==
  LET iw == R(ib[1].width)
      ih == R(ib[1].height)
      minScaleToCoverX == Div(R(fb[1].width), rotatedImgWidth(iw, ih, rot))
      minScaleToCoverY == Div(R(fb[1].height), rotatedImgHeight(iw, ih, rot))
  IN  MathMax(minScaleToCoverX, minScaleToCoverY)

\* mutant: the cap is applied last, so MAX_ZOOM wins over the covering scale
clampScaleCapLast(uncappedScale, minScale) ==
  MathMin(R(MAX_ZOOM), MathMax(minScale, uncappedScale))

clampScale(uncappedScale, minScale) ==
  MathMax(minScale, MathMin(uncappedScale, R(MAX_ZOOM)))

\* the pan after the pivot re-centering step (one axis)
recentre(v, pv, clampedScale, uncappedScale) ==
  IF StrictNeq(clampedScale, uncappedScale)
  THEN Add(pv, Mul(Sub(v, pv), Div(clampedScale, uncappedScale)))
  ELSE v

panRange(rotatedDim, frameDim) ==
  MathMax(R(0), Div(Sub(rotatedDim, frameDim), R(2)))

clampPan(v, range) == MathMax(Neg(range), MathMin(v, range))

\* the pan clamped for the scale clampTransform settled on
clampPosition(t, ib, fb, pivot, clampedScale) ==
  LET uncappedScale == t.scale
      x0 == recentre(t.x, pivot.x, clampedScale, uncappedScale)
      y0 == recentre(t.y, pivot.y, clampedScale, uncappedScale)
      imgDisplayWidth == Mul(R(ib[1].width), clampedScale)
      imgDisplayHeight == Mul(R(ib[1].height), clampedScale)
      rotatedWidth == rotatedImgWidth(imgDisplayWidth, imgDisplayHeight, t.rotation)
      rotatedHeight == rotatedImgHeight(imgDisplayWidth, imgDisplayHeight, t.rotation)
      panRangeX == panRange(rotatedWidth, R(fb[1].width))
      panRangeY == panRange(rotatedHeight, R(fb[1].height))
  IN  [t EXCEPT !.x = clampPan(x0, panRangeX),
                !.y = clampPan(y0, panRangeY),
                !.scale = clampedScale,
                !.rotation = normalizeAngle(t.rotation)]

clampTransform(t, ib, fb, pivot) ==
  IF ~Known(ib) \/ ~Known(fb) THEN t
  ELSE clampPosition(t, ib, fb, pivot,
                     clampScale(t.scale, minScaleToCover(ib, fb, t.rotation)))

\* mutant: the fit takes the smaller ratio (contain instead of cover)
fitTransformContain(ib, fb, pivot) ==
  LET scaleX == Div(R(fb[1].width), R(ib[1].width))
      scaleY == Div(R(fb[1].height), R(ib[1].height))
      initialScale == MathMin(scaleX, scaleY)
  IN  clampTransform([x |-> R(0), y |-> R(0), scale |-> initialScale, rotation |-> 0,
                      flipX |-> FALSE, flipY |-> FALSE], ib, fb, pivot)

\* the transform resetTransform stores (bounds known)
fitTransform(ib, fb, pivot) ==
  LET scaleX == Div(R(fb[1].width), R(ib[1].width))
      scaleY == Div(R(fb[1].height), R(ib[1].height))
      initialScale == MathMax(scaleX, scaleY)
  IN  clampTransform([x |-> R(0), y |-> R(0), scale |-> initialScale, rotation |-> 0,
                      flipX |-> FALSE, flipY |-> FALSE], ib, fb, pivot)

\* ------------------------------------------------------------------------
\* Bounds of the model
\* ------------------------------------------------------------------------
\* number of events in one run
MaxSteps == 4

\* ------------------------------------------------------------------------
\* State
\* ------------------------------------------------------------------------
VARIABLES
  transform,           \* useImageTransform: useState<Transform>
  isInteracting,       \* useImageTransform: isInteracting.current
  interactionState,    \* useImageTransform: interactionState.current; the field recorded
                       \* is history: the baselines written since the last press
  imageBounds,         \* Editor: useState, NoBounds while undefined
  frameBounds,         \* Editor: useState, NoBounds while undefined
  hasBeenInitialized,  \* Editor: hasBeenInitialized.current
  activeTool,          \* Editor: useState<Tool>
  imageSrc,            \* Editor: the imageSrc prop
  pendingLoads,        \* image sources whose img.onload has not fired yet
  imageFresh,          \* history: imageBounds were measured from imageSrc
  fitLog,              \* history: the fits since imageSrc was set; TRUE = with fresh bounds
  lastOp,              \* history: the last event handled
  steps,               \* number of events handled
  stickers,            \* Editor: useState<Sticker[]>
  draggingSticker,     \* Editor: useState, << >> while null
  drawingPaths,        \* Editor: useState<DrawingPath[]>
  isDrawing,           \* Editor: useState
  activeFilter,        \* Editor: useState<Filter>, an index into FILTERS
  activeFrame,         \* Editor: useState<Frame>, the frame's name
  finetuneSettings,    \* Editor: useState<FinetuneSettings>
  isProcessing,        \* Editor: useState
  finalImage,          \* Editor: useState, << >> while null
  printJob,            \* the handlePrint call in flight, << >> when there is none
  bodyContainers,      \* number of temporary frame containers in document.body
  alerts,              \* number of errors reported with alert()
  crashed,             \* a state updater threw: React unmounts the Editor
  call,                \* argument of the function applied (function specifications)
  ret                  \* its result, << >> before the call

vars ==
  << transform, isInteracting, interactionState, imageBounds, frameBounds,
     hasBeenInitialized, activeTool, imageSrc, pendingLoads, imageFresh, fitLog,
     lastOp, steps, stickers, draggingSticker, drawingPaths, isDrawing, activeFilter,
     activeFrame, finetuneSettings, isProcessing, finalImage, printJob, bodyContainers, alerts, crashed,
     call, ret >>

\* the Editor's annotation, style and export state
annotationVars ==
  << stickers, draggingSticker, drawingPaths, isDrawing, activeFilter, activeFrame,
     finetuneSettings,
     isProcessing, finalImage, printJob, bodyContainers, alerts, crashed >>

\* ------------------------------------------------------------------------
\* Inputs
\* ------------------------------------------------------------------------
\* img.naturalWidth x img.naturalHeight of the image sources
ImageSize(src) == IF src = "A" THEN Bounds(1600, 1200) ELSE Bounds(100, 50)

ImageSources == {"A", "B"}

\* printFrameRef clientWidth x clientHeight
FrameSizes == {Bounds(800, 600), Bounds(600, 800)}

\* containerRef.current.getBoundingClientRect()
ContainerRect == [left |-> 0, top |-> 0, width |-> 1000, height |-> 1000]

ClientPoints == {Point(500, 500), Point(800, 300)}

\* e.touches of the touch events
TouchLists ==
  { <<Point(500, 500)>>, <<Point(800, 300)>>,
    <<Point(500, 500), Point(500, 500)>>,
    <<Point(550, 500), Point(450, 500)>>,
    <<Point(660, 480), Point(540, 320)>> }

WheelDeltas == {-1000, 500, 1000, 2000}

RotateSteps == {Deg(90)}

SliderAngles == {Deg53, -Deg(180), Deg(0)}

Tools == {"crop", "rotation"}

\* Math.hypot(dx, dy), exact on the touch lists above
MathHypot(dx, dy) == R(CHOOSE r \in 0..(AbsInt(dx) + AbsInt(dy)) : r * r = dx * dx + dy * dy)

\* Math.atan2(dy, dx) * (180 / Math.PI), on the directions of the touch lists
MathAtan2Deg(dy, dx) ==
  CASE dx = 0 /\ dy = 0 -> Deg(0)
    [] dx > 0 /\ dy = 0 -> Deg(0)
    [] dx < 0 /\ dy = 0 -> Deg(180)
    [] dx = 0 /\ dy > 0 -> Deg(90)
    [] dx = 0 /\ dy < 0 -> -Deg(90)
    [] dx > 0 /\ dy > 0 /\ 3 * dy = 4 * dx -> Deg53
    [] dx > 0 /\ dy > 0 /\ 4 * dy = 3 * dx -> Deg37

\* whether Math.cos / Math.sin are tabulated at the angle
Tabulated(a) == (a % Deg(90)) \in {0, Deg37, Deg53}

ZeroPoint == Point(R(0), R(0))

\* useImageTransform's clampTransform closure over the given bounds
clampNow(t, pivot) == clampTransform(t, imageBounds, frameBounds, pivot)

\* ------------------------------------------------------------------------
\* Initial state: the Editor just constructed, nothing measured or loaded
\* ------------------------------------------------------------------------
EditorInit ==
  /\ transform = InitialTransform
  /\ isInteracting = FALSE
  /\ interactionState =
       [lastPanPosition |-> ZeroPoint, lastTouchDist |-> R(0),
        lastTouchAngle |-> 0, pivot |-> ZeroPoint, recorded |-> {}]
  /\ imageBounds = NoBounds
  /\ frameBounds = NoBounds
  /\ hasBeenInitialized = FALSE
  /\ activeTool = "crop"
  /\ imageSrc = "A"
  /\ pendingLoads = {"A"}
  /\ imageFresh = FALSE
  /\ fitLog = << >>
  /\ lastOp = "init"
  /\ steps = 0
  /\ stickers = << >>
  /\ draggingSticker = << >>
  /\ drawingPaths = << >>
  /\ isDrawing = FALSE
  /\ activeFilter = 1
  /\ activeFrame = "None"
  /\ finetuneSettings = DEFAULT_FINETUNE_SETTINGS
  /\ isProcessing = FALSE
  /\ finalImage = << >>
  /\ printJob = << >>
  /\ bodyContainers = 0
  /\ alerts = 0
  /\ crashed = FALSE

Init ==
  /\ EditorInit
  /\ call = << >>
  /\ ret = << >>

\* bookkeeping shared by every event
Event(name) ==
  /\ steps < MaxSteps
  /\ steps' = steps + 1
  /\ lastOp' = name
  /\ UNCHANGED <<call, ret>>
  /\ UNCHANGED annotationVars

\* ------------------------------------------------------------------------
\* Editor: bounds and the two layout effects that follow a change of bounds
\* ------------------------------------------------------------------------
\* the initial-fit effect followed by the re-clamp effect, for bounds ib, fb
BoundsEffects(ib, fb) ==
  LET runFit == Known(ib) /\ Known(fb) /\ ~hasBeenInitialized
      pivot == interactionState.pivot
      fitted == IF runFit THEN fitTransform(ib, fb, pivot) ELSE transform
  IN  /\ transform' = IF Known(fb) THEN clampTransform(fitted, ib, fb, pivot) ELSE fitted
      /\ hasBeenInitialized' = (hasBeenInitialized \/ runFit)
      /\ fitLog' = IF runFit THEN Append(fitLog, imageFresh') ELSE fitLog

\* updateBounds: the frame element was measured (mount, resize, aspect ratio, frame)
FrameResize(fb) ==
  /\ Event("frameResize")
  /\ fb[1].width > 0 /\ fb[1].height > 0
  /\ frameBounds' = fb
  /\ imageFresh' = imageFresh
  /\ BoundsEffects(imageBounds, fb)
  /\ UNCHANGED <<isInteracting, interactionState, imageBounds, activeTool, imageSrc,
                 pendingLoads>>

\* img.onload of a source set earlier: setImageBounds
ImageLoaded(src) ==
  /\ Event("imageLoaded")
  /\ src \in pendingLoads
  /\ pendingLoads' = pendingLoads \ {src}
  /\ imageBounds' = ImageSize(src)
  /\ imageFresh' = (src = imageSrc)
  /\ BoundsEffects(ImageSize(src), frameBounds)
  /\ UNCHANGED <<isInteracting, interactionState, frameBounds, activeTool, imageSrc>>

\* the imageSrc prop changes: a new load starts and the initialization flag is reset
ImageSrcChange(src) ==
  /\ Event("imageSrcChange")
  /\ src # imageSrc
  /\ imageSrc' = src
  /\ pendingLoads' = pendingLoads \cup {src}
  /\ hasBeenInitialized' = FALSE
  /\ imageFresh' = FALSE
  /\ fitLog' = << >>
  /\ UNCHANGED <<transform, isInteracting, interactionState, imageBounds, frameBounds,
                 activeTool>>

SetActiveTool(tool) ==
  /\ Event("setActiveTool")
  /\ activeTool' = tool
  /\ UNCHANGED <<transform, isInteracting, interactionState, imageBounds, frameBounds,
                 hasBeenInitialized, imageSrc, pendingLoads, imageFresh, fitLog>>

\* what the hook's operations leave alone
HookFrame ==
  UNCHANGED <<imageBounds, frameBounds, hasBeenInitialized, activeTool, imageSrc,
              pendingLoads, imageFresh, fitLog>>

\* ------------------------------------------------------------------------
\* useImageTransform: mutators
\* ------------------------------------------------------------------------
rotateBy(degrees) ==
  /\ Event("rotateBy")
  /\ Tabulated(transform.rotation + degrees)
  /\ interactionState' = [interactionState EXCEPT !.pivot = ZeroPoint]
  /\ transform' = clampNow([transform EXCEPT !.rotation = transform.rotation + degrees],
                           ZeroPoint)
  /\ UNCHANGED isInteracting
  /\ HookFrame

setRotation(degrees) ==
  /\ Event("setRotation")
  /\ interactionState' = [interactionState EXCEPT !.pivot = ZeroPoint]
  /\ transform' = clampNow([transform EXCEPT !.rotation = degrees], ZeroPoint)
  /\ UNCHANGED isInteracting
  /\ HookFrame

flip(axis) ==
  /\ Event("flip")
  /\ transform' =
       clampNow([transform EXCEPT
                   !.flipX = IF axis = "x" THEN ~transform.flipX ELSE transform.flipX,
                   !.flipY = IF axis = "y" THEN ~transform.flipY ELSE transform.flipY],
                interactionState.pivot)
  /\ UNCHANGED <<isInteracting, interactionState>>
  /\ HookFrame

\* ------------------------------------------------------------------------
\* useImageTransform: pointer handlers, as the Editor routes the events to them
\* ------------------------------------------------------------------------
\* handleMouseDown -> onInteractionStart(clientX, clientY)
onInteractionStart(p) ==
  /\ Event("mouseDown")
  /\ isInteracting' = TRUE
  /\ interactionState' =
       [interactionState EXCEPT !.lastPanPosition = Point(R(p.x), R(p.y)),
                                !.recorded = {"position"}]
  /\ UNCHANGED transform
  /\ HookFrame

\* handleMouseMove -> onPan(clientX, clientY)
onPan(p) ==
  /\ Event("mouseMove")
  /\ IF ~isInteracting
     THEN UNCHANGED <<transform, interactionState>>
     ELSE LET dx == Sub(R(p.x), interactionState.lastPanPosition.x)
              dy == Sub(R(p.y), interactionState.lastPanPosition.y)
          IN  /\ interactionState' =
                   [interactionState EXCEPT !.lastPanPosition = Point(R(p.x), R(p.y))]
              /\ transform' =
                   clampNow([transform EXCEPT !.x = Add(transform.x, dx),
                                              !.y = Add(transform.y, dy)],
                            interactionState.pivot)
  /\ UNCHANGED isInteracting
  /\ HookFrame

\* mutant: the release clamps but leaves the interaction active
onInteractionEndStaysActive ==
  /\ Event("release")
  /\ isInteracting' = isInteracting
  /\ transform' = clampNow(transform, interactionState.pivot)
  /\ UNCHANGED interactionState
  /\ HookFrame

\* handleMouseUp, handleMouseLeave, handleTouchEnd -> onInteractionEnd()
onInteractionEnd ==
  /\ Event("release")
  /\ isInteracting' = FALSE
  /\ transform' = clampNow(transform, interactionState.pivot)
  /\ UNCHANGED interactionState
  /\ HookFrame

\* mutant: the wheel zooms about the frame centre, not about the pointer
onWheelAboutCentre(deltaY, p) ==
  LET zoomFactor == Q(1000 - deltaY, 1000)
      mouseX == Sub(Sub(R(p.x), R(ContainerRect.left)), Div(R(ContainerRect.width), R(2)))
      mouseY == Sub(Sub(R(p.y), R(ContainerRect.top)), Div(R(ContainerRect.height), R(2)))
  IN  /\ Event("wheel")
      /\ interactionState' = [interactionState EXCEPT !.pivot = Point(mouseX, mouseY)]
      /\ transform' =
           clampNow([transform EXCEPT !.scale = Mul(transform.scale, zoomFactor),
                                      !.x = Mul(transform.x, zoomFactor),
                                      !.y = Mul(transform.y, zoomFactor)],
                    Point(mouseX, mouseY))
      /\ UNCHANGED isInteracting
      /\ HookFrame

\* containerEventHandlers.onWheel
onWheel(deltaY, p) ==
  LET zoomFactor == Q(1000 - deltaY, 1000)
      newScale == Mul(transform.scale, zoomFactor)
      mouseX == Sub(Sub(R(p.x), R(ContainerRect.left)), Div(R(ContainerRect.width), R(2)))
      mouseY == Sub(Sub(R(p.y), R(ContainerRect.top)), Div(R(ContainerRect.height), R(2)))
      newX == Add(mouseX, Mul(Sub(transform.x, mouseX), zoomFactor))
      newY == Add(mouseY, Mul(Sub(transform.y, mouseY), zoomFactor))
  IN  /\ Event("wheel")
      /\ interactionState' = [interactionState EXCEPT !.pivot = Point(mouseX, mouseY)]
      /\ transform' =
           clampNow([transform EXCEPT !.scale = newScale, !.x = newX, !.y = newY],
                    Point(mouseX, mouseY))
      /\ UNCHANGED isInteracting
      /\ HookFrame

rotationGestureEnabled == activeTool # "crop" /\ activeTool # "annotate"

\* handleTouchStart -> onTouchStart(e)
onTouchStart(touches) ==
  /\ Event("touchStart")
  /\ isInteracting' = TRUE
  /\ interactionState' =
       IF Len(touches) = 1
       THEN [interactionState EXCEPT
               !.lastPanPosition = Point(R(touches[1].x), R(touches[1].y)),
               !.recorded = {"position"}]
       ELSE IF Len(touches) = 2
       THEN LET t1 == touches[1]
                t2 == touches[2]
            IN  [interactionState EXCEPT
                   !.lastTouchDist = MathHypot(t1.x - t2.x, t1.y - t2.y),
                   !.lastTouchAngle =
                      IF rotationGestureEnabled
                      THEN MathAtan2Deg(t1.y - t2.y, t1.x - t2.x)
                      ELSE @,
                   !.lastPanPosition = Point(Q(t1.x + t2.x, 2), Q(t1.y + t2.y, 2)),
                   !.recorded = IF rotationGestureEnabled
                                THEN {"position", "distance", "angle"}
                                ELSE {"position", "distance"}]
       ELSE [interactionState EXCEPT !.recorded = {}]
  /\ UNCHANGED transform
  /\ HookFrame

\* mutant: the distance baseline stays at the gesture start
PinchMoveFromStart(touches) ==
  LET t1 == touches[1]
      t2 == touches[2]
      newDist == MathHypot(t1.x - t2.x, t1.y - t2.y)
      centerPos == Point(Q(t1.x + t2.x, 2), Q(t1.y + t2.y, 2))
      scaleFactor == Div(newDist, interactionState.lastTouchDist)
      newAngle == MathAtan2Deg(t1.y - t2.y, t1.x - t2.x)
      angleDelta == IF rotationGestureEnabled
                    THEN newAngle - interactionState.lastTouchAngle ELSE 0
      panDx == Sub(centerPos.x, interactionState.lastPanPosition.x)
      panDy == Sub(centerPos.y, interactionState.lastPanPosition.y)
      pivotX == Sub(Sub(centerPos.x, R(ContainerRect.left)), Div(R(ContainerRect.width), R(2)))
      pivotY == Sub(Sub(centerPos.y, R(ContainerRect.top)), Div(R(ContainerRect.height), R(2)))
      x_after_zoom == Add(pivotX, Mul(Sub(transform.x, pivotX), scaleFactor))
      y_after_zoom == Add(pivotY, Mul(Sub(transform.y, pivotY), scaleFactor))
  IN  [t |-> [transform EXCEPT !.scale = Mul(transform.scale, scaleFactor),
                               !.rotation = transform.rotation + angleDelta,
                               !.x = Add(x_after_zoom, panDx),
                               !.y = Add(y_after_zoom, panDy)],
       st |-> [lastPanPosition |-> centerPos,
               lastTouchDist |-> interactionState.lastTouchDist,
               lastTouchAngle |-> IF rotationGestureEnabled THEN newAngle
                                  ELSE interactionState.lastTouchAngle,
               pivot |-> Point(pivotX, pivotY),
               recorded |-> interactionState.recorded \cup
                              (IF rotationGestureEnabled
                               THEN {"position", "distance", "angle"}
                               ELSE {"position", "distance"})]]

\* the candidate transform and the interaction state after a two-pointer move
PinchMove(touches) ==
  LET t1 == touches[1]
      t2 == touches[2]
      newDist == MathHypot(t1.x - t2.x, t1.y - t2.y)
      centerPos == Point(Q(t1.x + t2.x, 2), Q(t1.y + t2.y, 2))
      scaleFactor == Div(newDist, interactionState.lastTouchDist)
      newAngle == MathAtan2Deg(t1.y - t2.y, t1.x - t2.x)
      angleDelta == IF rotationGestureEnabled
                    THEN newAngle - interactionState.lastTouchAngle ELSE 0
      panDx == Sub(centerPos.x, interactionState.lastPanPosition.x)
      panDy == Sub(centerPos.y, interactionState.lastPanPosition.y)
      pivotX == Sub(Sub(centerPos.x, R(ContainerRect.left)), Div(R(ContainerRect.width), R(2)))
      pivotY == Sub(Sub(centerPos.y, R(ContainerRect.top)), Div(R(ContainerRect.height), R(2)))
      x_after_zoom == Add(pivotX, Mul(Sub(transform.x, pivotX), scaleFactor))
      y_after_zoom == Add(pivotY, Mul(Sub(transform.y, pivotY), scaleFactor))
  IN  [t |-> [transform EXCEPT !.scale = Mul(transform.scale, scaleFactor),
                               !.rotation = transform.rotation + angleDelta,
                               !.x = Add(x_after_zoom, panDx),
                               !.y = Add(y_after_zoom, panDy)],
       st |-> [lastPanPosition |-> centerPos,
               lastTouchDist |-> newDist,
               lastTouchAngle |-> IF rotationGestureEnabled THEN newAngle
                                  ELSE interactionState.lastTouchAngle,
               pivot |-> Point(pivotX, pivotY),
               recorded |-> interactionState.recorded \cup
                              (IF rotationGestureEnabled
                               THEN {"position", "distance", "angle"}
                               ELSE {"position", "distance"})]]

\* handleTouchMove -> onTouchMove(e)
onTouchMove(touches) ==
  /\ Event("touchMove")
  /\ IF ~isInteracting
     THEN UNCHANGED <<transform, interactionState>>
     ELSE IF Len(touches) = 1
     THEN LET t == touches[1]
              dx == Sub(R(t.x), interactionState.lastPanPosition.x)
              dy == Sub(R(t.y), interactionState.lastPanPosition.y)
          IN  /\ interactionState' =
                   [interactionState EXCEPT !.lastPanPosition = Point(R(t.x), R(t.y))]
              /\ transform' =
                   clampNow([transform EXCEPT !.x = Add(transform.x, dx),
                                              !.y = Add(transform.y, dy)],
                            interactionState.pivot)
     ELSE IF Len(touches) = 2
     THEN LET m == PinchMove(touches)
          IN  /\ Tabulated(m.t.rotation)
              /\ interactionState' = m.st
              /\ transform' = clampNow(m.t, m.st.pivot)
     ELSE /\ transform' = clampNow(transform, interactionState.pivot)
          /\ UNCHANGED interactionState
  /\ UNCHANGED isInteracting
  /\ HookFrame

\* ------------------------------------------------------------------------
\* The editor as a state machine
\* ------------------------------------------------------------------------
Next ==
  \/ \E fb \in FrameSizes : FrameResize(fb)
  \/ \E src \in ImageSources : ImageLoaded(src)
  \/ \E src \in ImageSources : ImageSrcChange(src)
  \/ \E tool \in Tools : SetActiveTool(tool)
  \/ \E d \in RotateSteps : rotateBy(d)
  \/ \E d \in SliderAngles : setRotation(d)
  \/ \E axis \in {"x", "y"} : flip(axis)
  \/ \E p \in ClientPoints : onInteractionStart(p)
  \/ \E p \in ClientPoints : onPan(p)
  \/ onInteractionEnd
  \/ \E d \in WheelDeltas, p \in ClientPoints : onWheel(d, p)
  \/ \E tl \in TouchLists : onTouchStart(tl)
  \/ \E tl \in TouchLists : onTouchMove(tl)

Spec == Init /\ [][Next]_vars

\* ------------------------------------------------------------------------
\* clampTransform and resetTransform as functions of their inputs
\* ------------------------------------------------------------------------
\* candidate transforms: finite, with zero, negative, too small and too large scales
ClampCandidates ==
  [x : {R(0), R(300), R(-5000)}, y : {R(0), R(-200)},
   scale : {R(0), Q(-1, 2), Q(1, 4), R(1), R(10)},
   rotation : {Deg(0), Deg53, Deg(90), Deg(180), -Deg(180), Deg(270)},
   flipX : BOOLEAN, flipY : {FALSE}]

ClampCalls ==
  [t : ClampCandidates,
   ib : {ImageSize(src) : src \in ImageSources},
   fb : FrameSizes,
   pivot : {ZeroPoint, Point(R(300), R(-200))}]

InitClamp ==
  /\ EditorInit
  /\ call \in ClampCalls
  /\ ret = << >>

FunctionFrame ==
  /\ UNCHANGED <<transform, isInteracting, interactionState, imageBounds, frameBounds,
                 hasBeenInitialized, activeTool, imageSrc, pendingLoads, imageFresh,
                 fitLog, steps, call>>
  /\ UNCHANGED annotationVars

\* clampTransform(t)
ApplyClamp ==
  /\ ret = << >>
  /\ ret' = << clampTransform(call.t, call.ib, call.fb, call.pivot) >>
  /\ lastOp' = "clampTransform"
  /\ FunctionFrame

\* clampTransform(clampTransform(t))
ApplyClampAgain ==
  /\ lastOp = "clampTransform"
  /\ Len(ret) = 1
  /\ ret' = Append(ret, clampTransform(ret[1], call.ib, call.fb, call.pivot))
  /\ lastOp' = "clampTransform"
  /\ FunctionFrame

\* resetTransform(), whatever candidate the call carries
ApplyReset ==
  /\ ret = << >>
  /\ ret' = << fitTransform(call.ib, call.fb, call.pivot) >>
  /\ lastOp' = "resetTransform"
  /\ FunctionFrame

NextClamp == ApplyClamp \/ ApplyClampAgain \/ ApplyReset

SpecClamp == InitClamp /\ [][NextClamp]_vars

\* ------------------------------------------------------------------------
\* Properties of clampTransform and resetTransform (SpecClamp)
\* ------------------------------------------------------------------------
\* clampTransform has returned for the call
Clamped == lastOp = "clampTransform" /\ Len(ret) >= 1

\* the minimum covering scale for the call's bounds at the candidate's rotation
CallMinScale == minScaleToCover(call.ib, call.fb, call.t.rotation)

\* the frame point c lies inside the image rectangle placed by transform t
\* (centre (t.x, t.y), turned by t.rotation, sides imageWidth*scale, imageHeight*scale)
InsideImage(t, ib, c) ==
  LET dx == Sub(c.x, t.x)
      dy == Sub(c.y, t.y)
      cos == MathCos(t.rotation)
      sin == MathSin(t.rotation)
      u == Add(Mul(dx, cos), Mul(dy, sin))
      v == Sub(Mul(dy, cos), Mul(dx, sin))
  IN  /\ Le(MathAbs(u), Div(Mul(R(ib[1].width), t.scale), R(2)))
      /\ Le(MathAbs(v), Div(Mul(R(ib[1].height), t.scale), R(2)))

FrameCorners(fb) ==
  { Point(Q(sx * fb[1].width, 2), Q(sy * fb[1].height, 2)) : sx \in {-1, 1}, sy \in {-1, 1} }

\* C2: for every transform clampTransform returns, all four corners of the frame lie
\* inside the rotated, scaled, translated image rectangle, at every rotation angle.
\* (Stated for the calls whose result is finite.)
C2_ImageCoversFrame ==
  (Clamped /\ IsFinite(ret[1].x) /\ IsFinite(ret[1].y))
    => \A c \in FrameCorners(call.fb) : InsideImage(ret[1], call.ib, c)

\* C3 as claimed: clampTransform(t).scale lies in [minScaleToCover, MAX_ZOOM] for every
\* candidate, also when the minimum covering scale exceeds MAX_ZOOM.
C3_ScaleInMinMax ==
  Clamped => /\ Le(CallMinScale, ret[1].scale)
             /\ Le(ret[1].scale, R(MAX_ZOOM))

\* C3 as amended: clampTransform(t).scale is at least minScaleToCover for every
\* candidate; it is at most MAX_ZOOM whenever minScaleToCover <= MAX_ZOOM, and equals
\* minScaleToCover when minScaleToCover exceeds MAX_ZOOM.
C3_ScaleCoversThenCapped ==
  Clamped => /\ Le(CallMinScale, ret[1].scale)
             /\ Le(CallMinScale, R(MAX_ZOOM)) => Le(ret[1].scale, R(MAX_ZOOM))
             /\ Lt(R(MAX_ZOOM), CallMinScale) => ret[1].scale = CallMinScale

\* witness of C3: a call whose minimum covering scale exceeds MAX_ZOOM has returned it
C3_Witness ==
  /\ Clamped
  /\ Lt(R(MAX_ZOOM), CallMinScale)
  /\ ret[1].scale = CallMinScale
  /\ Lt(call.t.scale, R(MAX_ZOOM))

C5_ClampTotalInBounds ==
  Clamped =>
    LET r == ret[1]
        w == Mul(R(call.ib[1].width), r.scale)
        h == Mul(R(call.ib[1].height), r.scale)
        rangeX == panRange(rotatedImgWidth(w, h, r.rotation), R(call.fb[1].width))
        rangeY == panRange(rotatedImgHeight(w, h, r.rotation), R(call.fb[1].height))
    IN  /\ IsFinite(r.x) /\ IsFinite(r.y) /\ IsFinite(r.scale)
        /\ Le(CallMinScale, r.scale)
        /\ Le(r.scale, MathMax(R(MAX_ZOOM), CallMinScale))
        /\ Le(MathAbs(r.x), rangeX)
        /\ Le(MathAbs(r.y), rangeY)

\* C7: resetTransform yields scale = max(frameWidth/imageWidth, frameHeight/imageHeight)
\* (the least scale at which both sides cover), x = y = 0, rotation = 0 and no flip;
\* for frame 800x600 and image 1600x1200 the scale is 1/2.
C7_ResetIsFit ==
  lastOp = "resetTransform" =>
    LET r == ret[1]
        w == Mul(R(call.ib[1].width), r.scale)
        h == Mul(R(call.ib[1].height), r.scale)
        fw == R(call.fb[1].width)
        fh == R(call.fb[1].height)
    IN  /\ Le(fw, w) /\ Le(fh, h) /\ (w = fw \/ h = fh)
        /\ r.x = R(0) /\ r.y = R(0) /\ r.rotation = 0
        /\ ~r.flipX /\ ~r.flipY
        /\ (call.ib = Bounds(1600, 1200) /\ call.fb = Bounds(800, 600)) => r.scale = Q(1, 2)

\* witness of C7: the fit of the 1600x1200 image to the 800x600 frame, with a pivot
\* recorded away from the frame centre
C7_Witness ==
  /\ lastOp = "resetTransform"
  /\ call.ib = Bounds(1600, 1200)
  /\ call.fb = Bounds(800, 600)
  /\ call.pivot # ZeroPoint
  /\ ret[1].scale = Q(1, 2)

\* ------------------------------------------------------------------------
\* Preview style, export pipeline and getPointInImageSpace
\* ------------------------------------------------------------------------
outputResolutionMultiplier == 2

\* a 2D affine matrix: (x, y) |-> (a*x + c*y + e, b*x + d*y + f)
IdentityMatrix == [a |-> R(1), b |-> R(0), c |-> R(0), d |-> R(1), e |-> R(0), f |-> R(0)]

\* ctx.translate(tx, ty) / CSS translate(): the current matrix times a translation
Translate(m, tx, ty) ==
  [m EXCEPT !.e = Add(Add(Mul(m.a, tx), Mul(m.c, ty)), m.e),
            !.f = Add(Add(Mul(m.b, tx), Mul(m.d, ty)), m.f)]

\* ctx.scale(sx, sy) / CSS scale(), scaleX(), scaleY()
Scale(m, sx, sy) ==
  [m EXCEPT !.a = Mul(m.a, sx), !.b = Mul(m.b, sx),
            !.c = Mul(m.c, sy), !.d = Mul(m.d, sy)]

\* ctx.rotate(angle) / CSS rotate()
Rotate(m, angle) ==
  LET cos == MathCos(angle)
      sin == MathSin(angle)
  IN  [m EXCEPT !.a = Add(Mul(m.a, cos), Mul(m.c, sin)),
                !.b = Add(Mul(m.b, cos), Mul(m.d, sin)),
                !.c = Sub(Mul(m.c, cos), Mul(m.a, sin)),
                !.d = Sub(Mul(m.d, cos), Mul(m.b, sin))]

ApplyMatrix(m, q) ==
  Point(Add(Add(Mul(m.a, q.x), Mul(m.c, q.y)), m.e),
        Add(Add(Mul(m.b, q.x), Mul(m.d, q.y)), m.f))

FlipSign(flag) == IF flag THEN R(-1) ELSE R(1)

\* imageStyle.transform: translate() rotate() scale() scaleX() scaleY(), origin centre
imageStyle(t) ==
  Scale(Scale(Scale(Rotate(Translate(IdentityMatrix, t.x, t.y), t.rotation),
                    t.scale, t.scale),
              FlipSign(t.flipX), R(1)),
        R(1), FlipSign(t.flipY))

\* handlePrint: the canvas matrix under which the image and the strokes are drawn
handlePrintMatrix(t, fb) ==
  LET k == R(outputResolutionMultiplier)
      canvasWidth == Mul(R(fb[1].width), k)
      canvasHeight == Mul(R(fb[1].height), k)
      effectiveScale == Mul(t.scale, k)
      m1 == Translate(IdentityMatrix, Div(canvasWidth, R(2)), Div(canvasHeight, R(2)))
      m2 == Translate(m1, Mul(t.x, k), Mul(t.y, k))
      m3 == Scale(m2, FlipSign(t.flipX), FlipSign(t.flipY))
      m4 == Rotate(m3, t.rotation)
  IN  Scale(m4, effectiveScale, effectiveScale)

\* where the drawn image has its pixel p: drawImage(img, -w/2, -h/2, w, h)
DrawnAt(ib, p) ==
  Point(Sub(p.x, Div(R(ib[1].width), R(2))), Sub(p.y, Div(R(ib[1].height), R(2))))

\* on-screen position of image pixel p, relative to the frame's top-left corner
previewPosition(t, ib, fb, p) ==
  LET q == ApplyMatrix(imageStyle(t), DrawnAt(ib, p))
  IN  Point(Add(Div(R(fb[1].width), R(2)), q.x), Add(Div(R(fb[1].height), R(2)), q.y))

\* position of image pixel p on the export canvas
exportPosition(t, ib, fb, p) == ApplyMatrix(handlePrintMatrix(t, fb), DrawnAt(ib, p))

\* the export position in screen units, relative to the frame centre
exportViewPoint(t, ib, fb, p) ==
  LET q == exportPosition(t, ib, fb, p)
      k == R(outputResolutionMultiplier)
  IN  Point(Sub(Div(q.x, k), Div(R(fb[1].width), R(2))),
            Sub(Div(q.y, k), Div(R(fb[1].height), R(2))))

\* mutant: the rotation is undone before the flip
getPointInImageSpaceRotateFirst(view, t, ib) ==
  LET pX == Sub(view.x, t.x)
      pY == Sub(view.y, t.y)
      cos == MathCos(-t.rotation)
      sin == MathSin(-t.rotation)
      rotatedX == Div(Sub(Mul(pX, cos), Mul(pY, sin)), FlipSign(t.flipX))
      rotatedY == Div(Add(Mul(pX, sin), Mul(pY, cos)), FlipSign(t.flipY))
  IN  Point(Add(Div(rotatedX, t.scale), Div(R(ib[1].width), R(2))),
            Add(Div(rotatedY, t.scale), Div(R(ib[1].height), R(2))))

\* getPointInImageSpace, from the point relative to the container centre
getPointInImageSpace(view, t, ib) ==
  LET pX == Div(Sub(view.x, t.x), FlipSign(t.flipX))
      pY == Div(Sub(view.y, t.y), FlipSign(t.flipY))
      cos == MathCos(-t.rotation)
      sin == MathSin(-t.rotation)
      rotatedX == Sub(Mul(pX, cos), Mul(pY, sin))
      rotatedY == Add(Mul(pX, sin), Mul(pY, cos))
  IN  Point(Add(Div(rotatedX, t.scale), Div(R(ib[1].width), R(2))),
            Add(Div(rotatedY, t.scale), Div(R(ib[1].height), R(2))))

\* transforms with every combination of flips, right and oblique angles
PointTransforms ==
  [x : {R(0), R(30)}, y : {R(-20)}, scale : {Q(1, 2), R(2)},
   rotation : {Deg(0), Deg53, Deg(90), -Deg(180)},
   flipX : BOOLEAN, flipY : BOOLEAN]

PointCalls ==
  [t : PointTransforms,
   p : {Point(R(0), R(0)), Point(R(800), R(600)), Point(R(1000), R(200))},
   ib : {Bounds(1600, 1200)},
   fb : {Bounds(800, 600)}]

InitPoint ==
  /\ EditorInit
  /\ call \in PointCalls
  /\ ret = << >>

\* image pixel call.p rendered by the preview and by the export
RenderPoint ==
  /\ ret = << >>
  /\ ret' = << [preview |-> previewPosition(call.t, call.ib, call.fb, call.p),
                export |-> exportPosition(call.t, call.ib, call.fb, call.p)] >>
  /\ lastOp' = "render"
  /\ FunctionFrame

\* call.p as an image point mapped to the screen and back, and as a screen point
\* (relative to the container centre) mapped to the image and forth
RoundTrip ==
  /\ ret = << >>
  /\ ret' = << [back |-> getPointInImageSpace(
                           exportViewPoint(call.t, call.ib, call.fb, call.p),
                           call.t, call.ib),
                forth |-> exportViewPoint(call.t, call.ib, call.fb,
                            getPointInImageSpace(call.p, call.t, call.ib))] >>
  /\ lastOp' = "roundTrip"
  /\ FunctionFrame

\* on-screen position of drawing-canvas point p, relative to the container centre:
\* the canvas is a child of the element that carries imageStyle
screenViewPoint(t, ib, p) == ApplyMatrix(imageStyle(t), DrawnAt(ib, p))

\* the pointer at call.p (relative to the container centre) draws a stroke point,
\* and the live canvas shows it on screen
StrokeOnScreen ==
  /\ ret = << >>
  /\ ret' = << [screen |-> screenViewPoint(call.t, call.ib,
                             getPointInImageSpace(call.p, call.t, call.ib))] >>
  /\ lastOp' = "strokeOnScreen"
  /\ FunctionFrame

NextPoint == RenderPoint \/ RoundTrip \/ StrokeOnScreen

SpecPoint == InitPoint /\ [][NextPoint]_vars

\* C9: for every transform and image point, the preview position equals the export
\* position divided by the output multiplier.
C9_PreviewExportParity ==
  lastOp = "render" =>
    /\ ret[1].preview.x = Div(ret[1].export.x, R(outputResolutionMultiplier))
    /\ ret[1].preview.y = Div(ret[1].export.y, R(outputResolutionMultiplier))

\* C10: getPointInImageSpace is the exact inverse of the export's forward transform:
\* forward then back returns the image point, back then forward the screen point.
C10_PointRoundTrip ==
  lastOp = "roundTrip" => (ret[1].back = call.p /\ ret[1].forth = call.p)

\* witness of C10: a round trip under one flip, an oblique rotation, a pan and a zoom
C10_Witness ==
  /\ lastOp = "roundTrip"
  /\ call.t.flipX /\ ~call.t.flipY
  /\ call.t.rotation = Deg53
  /\ call.t.scale = R(2)
  /\ call.t.x = R(30)
  /\ call.p = Point(R(1000), R(200))
  /\ ret[1].back = call.p

\* C11: for every transform the CSS transform applied to getPointInImageSpace(p)
\* gives back the screen point p (the stroke point is drawn under the pointer).
C11_StrokeUnderPointer ==
  lastOp = "strokeOnScreen" => ret[1].screen = call.p

\* ------------------------------------------------------------------------
\* Properties of the editor (Spec)
\* ------------------------------------------------------------------------
BoundsKnown == Known(imageBounds) /\ Known(frameBounds)

\* C1: once both bounds are known and the initial fit has run, the stored transform
\* keeps the image's bounding box over the frame: W' >= frameWidth, H' >= frameHeight,
\* |x| <= (W' - frameWidth)/2 and |y| <= (H' - frameHeight)/2.
C1_BoundingBoxCover ==
  (BoundsKnown /\ hasBeenInitialized) =>
    LET w == Mul(R(imageBounds[1].width), transform.scale)
        h == Mul(R(imageBounds[1].height), transform.scale)
        rotatedWidth == rotatedImgWidth(w, h, transform.rotation)
        rotatedHeight == rotatedImgHeight(w, h, transform.rotation)
        fw == R(frameBounds[1].width)
        fh == R(frameBounds[1].height)
    IN  /\ Le(fw, rotatedWidth)
        /\ Le(fh, rotatedHeight)
        /\ Le(MathAbs(transform.x), Div(Sub(rotatedWidth, fw), R(2)))
        /\ Le(MathAbs(transform.y), Div(Sub(rotatedHeight, fh), R(2)))

\* C6: while image bounds or frame bounds are unknown, an operation that does not
\* itself deliver bounds leaves the stored transform as it was.
C6_NoOpWithoutBounds ==
  [][(~BoundsKnown /\ imageBounds' = imageBounds /\ frameBounds' = frameBounds)
       => transform' = transform]_vars

\* C8: the initial fit runs exactly once per image source, at the moment the bounds of
\* that image and of the frame are both known: never more than once, never from the
\* bounds of an earlier image, and it has run whenever both are known.
C8_FitOncePerImage ==
  /\ Len(fitLog) <= 1
  /\ \A i \in 1..Len(fitLog) : fitLog[i]
  /\ (imageFresh /\ Known(frameBounds)) => Len(fitLog) = 1

\* ------------------------------------------------------------------------
\* Filter styles: a string is a sequence of one-character strings
\* ------------------------------------------------------------------------
\* constants.ts FILTERS (the version with a style string, which the Editor reads)
FILTERS ==
  <<
    [name |-> "None",
     style |-> << >>],
    [name |-> "Grayscale",
     style |-> <<"g", "r", "a", "y", "s", "c", "a", "l", "e", "(", "1", ")">>],
    [name |-> "Sepia",
     style |-> <<"s", "e", "p", "i", "a", "(", "1", ")">>],
    [name |-> "Invert",
     style |-> <<"i", "n", "v", "e", "r", "t", "(", "1", ")">>],
    [name |-> "Vintage",
     style |-> <<"g", "r", "a", "y", "s", "c", "a", "l", "e", "(", "1", ")", " ", "s",
                 "e", "p", "i", "a", "(", "0", ".", "6", ")", " ", "c", "o", "n", "t",
                 "r", "a", "s", "t", "(", "1", ".", "1", ")", " ", "b", "r", "i", "g",
                 "h", "t", "n", "e", "s", "s", "(", "0", ".", "9", ")">>],
    [name |-> "Sunny",
     style |-> <<"s", "a", "t", "u", "r", "a", "t", "e", "(", "1", ".", "5", ")", " ",
                 "c", "o", "n", "t", "r", "a", "s", "t", "(", "1", ".", "2", "5", ")">>],
    [name |-> "Cool",
     style |-> <<"h", "u", "e", "-", "r", "o", "t", "a", "t", "e", "(", "-", "1", "5",
                 "d", "e", "g", ")", " ", "s", "a", "t", "u", "r", "a", "t", "e", "(",
                 "1", ".", "5", ")">>],
    [name |-> "Dramatic",
     style |-> <<"c", "o", "n", "t", "r", "a", "s", "t", "(", "2", ")">>]
  >>

\* DEFAULT_FINETUNE_SETTINGS
Digits == <<"0", "1", "2", "3", "4", "5", "6", "7", "8", "9">>

IsDigit(c) == \E i \in 1..10 : Digits[i] = c

DigitValue(c) == (CHOOSE i \in 1..10 : Digits[i] = c) - 1

Letters ==
  {"a", "b", "c", "d", "e", "f", "g", "h", "i", "j", "k", "l", "m",
   "n", "o", "p", "q", "r", "s", "t", "u", "v", "w", "x", "y", "z"}

\* the regular expression class \w (lower-case letters and digits occur in FILTERS)
IsWordChar(c) == c \in Letters \/ IsDigit(c) \/ c = "_"

\* the index after the longest run of characters satisfying the class, from i
RECURSIVE WordEnd(_, _)
WordEnd(s, i) == IF i <= Len(s) /\ IsWordChar(s[i]) THEN WordEnd(s, i + 1) ELSE i

RECURSIVE DigitsEnd(_, _)
DigitsEnd(s, i) == IF i <= Len(s) /\ IsDigit(s[i]) THEN DigitsEnd(s, i + 1) ELSE i

\* the index of the first ")" at or after i, Len(s) + 1 if there is none
RECURSIVE CloseParen(_, _)
CloseParen(s, i) == IF i <= Len(s) /\ s[i] # ")" THEN CloseParen(s, i + 1) ELSE i

\* /(\w+)\(([^)]+)\)/ anchored at i: the index of the closing ")", 0 if no match
filterRegexAt(s, i) ==
  LET j == WordEnd(s, i)
      k == CloseParen(s, j + 1)
  IN  IF j > i /\ j <= Len(s) /\ s[j] = "(" /\ k > j + 1 /\ k <= Len(s) THEN k ELSE 0

\* style.match(filterRegex) with the g flag: the matched substrings, left to right
RECURSIVE presetFilters(_, _)
presetFilters(s, i) ==
  IF i > Len(s) THEN << >>
  ELSE IF filterRegexAt(s, i) = 0 THEN presetFilters(s, i + 1)
  ELSE <<SubSeq(s, i, filterRegexAt(s, i))>> \o presetFilters(s, filterRegexAt(s, i) + 1)

\* filter.match(/(\w+)\((.+)\)/): parts[1] and parts[2] of a matched substring
\* (a matched substring holds exactly one ")", its last character)
filterParts(filter) ==
  LET j == WordEnd(filter, 1)
  IN  [name |-> SubSeq(filter, 1, j - 1), valueString |-> SubSeq(filter, j + 1, Len(filter) - 1)]

\* the natural number written by the digits s[i..j-1]
RECURSIVE DigitsValue(_, _, _)
DigitsValue(s, i, j) ==
  IF j <= i THEN 0 ELSE 10 * DigitsValue(s, i, j - 1) + DigitValue(s[j - 1])

RECURSIVE Pow10(_)
Pow10(n) == IF n = 0 THEN 1 ELSE 10 * Pow10(n - 1)

\* parseFloat: sign, digits, fraction; the rest of the string is ignored
parseFloat(s) ==
  LET signed == Len(s) >= 1 /\ s[1] \in {"-", "+"}
      i == IF signed THEN 2 ELSE 1
      j == DigitsEnd(s, i)
      hasFraction == j <= Len(s) /\ s[j] = "." /\ DigitsEnd(s, j + 1) > j + 1
      k == IF hasFraction THEN DigitsEnd(s, j + 1) ELSE j
      whole == DigitsValue(s, i, j)
      fraction == IF hasFraction THEN DigitsValue(s, j + 1, k) ELSE 0
      scale10 == IF hasFraction THEN Pow10(k - j - 1) ELSE 1
      magnitude == Q(whole * scale10 + fraction, scale10)
  IN  IF j = i /\ ~hasFraction THEN NaN
      ELSE IF signed /\ s[1] = "-" THEN Neg(magnitude) ELSE magnitude

\* the keys of baseSettings, in insertion order
brightnessName == <<"b", "r", "i", "g", "h", "t", "n", "e", "s", "s">>

contrastName == <<"c", "o", "n", "t", "r", "a", "s", "t">>

saturateName == <<"s", "a", "t", "u", "r", "a", "t", "e">>

sepiaName == <<"s", "e", "p", "i", "a">>

finetuneFilterNames == {brightnessName, contrastName, saturateName, sepiaName}

\* mutant: the additive dimension is not clamped
mergeSettingNoClamp(baseSettings, name, value) ==
  IF name = brightnessName THEN [baseSettings EXCEPT !.brightness = Mul(@, value)]
  ELSE IF name = contrastName THEN [baseSettings EXCEPT !.contrast = Mul(@, value)]
  ELSE IF name = saturateName THEN [baseSettings EXCEPT !.saturate = Mul(@, value)]
  ELSE IF name = sepiaName THEN [baseSettings EXCEPT !.sepia = Add(@, value)]
  ELSE baseSettings

\* baseSettings after a preset function of a finetune dimension is merged into it
mergeSetting(baseSettings, name, value) ==
  IF name = brightnessName THEN [baseSettings EXCEPT !.brightness = Mul(@, value)]
  ELSE IF name = contrastName THEN [baseSettings EXCEPT !.contrast = Mul(@, value)]
  ELSE IF name = saturateName THEN [baseSettings EXCEPT !.saturate = Mul(@, value)]
  ELSE IF name = sepiaName
  THEN [baseSettings EXCEPT !.sepia = IF Lt(R(1), Add(@, value)) THEN R(1) ELSE Add(@, value)]
  ELSE baseSettings

\* one iteration of the loop over presetFilters
mergeFilter(acc, filter, name, value) ==
  IF name \in finetuneFilterNames /\ ~IsNaN(value)
  THEN [acc EXCEPT !.baseSettings = mergeSetting(@, name, value)]
  ELSE [acc EXCEPT !.otherFilters = Append(@, filter)]

\* the loop over the first n matched substrings
RECURSIVE mergePreset(_, _, _)
mergePreset(acc, filters, n) ==
  IF n = 0 THEN acc
  ELSE mergeFilter(mergePreset(acc, filters, n - 1), filters[n],
                   filterParts(filters[n]).name,
                   parseFloat(filterParts(filters[n]).valueString))

\* combinedFilterStyle: the functions of the filter string, in order; a function of
\* a finetune dimension is kept as its name and its number
combinedFilterStyle(preset, settings) ==
  mergePreset([baseSettings |->
                 [brightness |-> Q(settings.brightness, 100),
                  contrast |-> Q(settings.contrast, 100),
                  saturate |-> Q(settings.saturation, 100),
                  sepia |-> Q(settings.sepia, 100)],
               otherFilters |-> << >>],
              presetFilters(preset.style, 1),
              Len(presetFilters(preset.style, 1)))

\* ------------------------------------------------------------------------
\* combinedFilterStyle as a function of the preset and the sliders
\* ------------------------------------------------------------------------
\* slider positions within the ranges of FINETUNE_TOOLS
FinetuneChoices ==
  [brightness : {50, 100, 150}, contrast : {100, 120}, saturation : {0, 100, 200},
   sepia : {0, 50, 100}, vignette : {0}]

StyleCalls == [activeFilter : {FILTERS[i] : i \in 1..Len(FILTERS)}, finetuneSettings : FinetuneChoices]

InitStyle ==
  /\ EditorInit
  /\ call \in StyleCalls
  /\ ret = << >>

ApplyStyle ==
  /\ ret = << >>
  /\ ret' = << combinedFilterStyle(call.activeFilter, call.finetuneSettings) >>
  /\ lastOp' = "combinedFilterStyle"
  /\ FunctionFrame

NextStyle == ApplyStyle

SpecStyle == InitStyle /\ [][NextStyle]_vars

\* the numbers of the presets of constants.ts, read off the style strings; a preset
\* without a function of a dimension contributes 1 to a product and 0 to a sum
PresetNumbers(name) ==
  LET none == [brightness |-> R(1), contrast |-> R(1), saturate |-> R(1), sepia |-> R(0)]
  IN  CASE name = "Sepia" -> [none EXCEPT !.sepia = R(1)]
        [] name = "Vintage" ->
             [none EXCEPT !.sepia = Q(6, 10), !.contrast = Q(11, 10), !.brightness = Q(9, 10)]
        [] name = "Sunny" -> [none EXCEPT !.saturate = Q(15, 10), !.contrast = Q(125, 100)]
        [] name = "Cool" -> [none EXCEPT !.saturate = Q(15, 10)]
        [] name = "Dramatic" -> [none EXCEPT !.contrast = R(2)]
        [] OTHER -> none

\* C19: for every preset and slider setting, brightness, contrast and saturate are
\* the product of slider/100 and the preset value (in either order of the factors),
\* and sepia is min(1, slider/100 + preset sepia), never above 1.
C19_StyleMerge ==
  lastOp = "combinedFilterStyle" =>
    LET p == PresetNumbers(call.activeFilter.name)
        f == call.finetuneSettings
        b == ret[1].baseSettings
    IN  /\ b.brightness = Mul(Q(f.brightness, 100), p.brightness)
        /\ b.brightness = Mul(p.brightness, Q(f.brightness, 100))
        /\ b.contrast = Mul(Q(f.contrast, 100), p.contrast)
        /\ b.contrast = Mul(p.contrast, Q(f.contrast, 100))
        /\ b.saturate = Mul(Q(f.saturation, 100), p.saturate)
        /\ b.saturate = Mul(p.saturate, Q(f.saturation, 100))
        /\ b.sepia = MathMin(R(1), Add(Q(f.sepia, 100), p.sepia))
        /\ Le(b.sepia, R(1))

\* witness of C19: Vintage with brightness 150 and sepia 50: 0.9 * 1.5 and a clamped sum
C19_Witness ==
  /\ lastOp = "combinedFilterStyle"
  /\ call.activeFilter.name = "Vintage"
  /\ call.finetuneSettings.brightness = 150
  /\ call.finetuneSettings.sepia = 50
  /\ ret[1].baseSettings.brightness = Q(27, 20)
  /\ ret[1].baseSettings.sepia = R(1)

\* the functions of a style string: its pieces between spaces
RECURSIVE StyleFunctions(_, _, _)
StyleFunctions(s, from, i) ==
  IF i > Len(s) THEN (IF from > Len(s) THEN << >> ELSE <<SubSeq(s, from, Len(s))>>)
  ELSE IF s[i] = " " THEN <<SubSeq(s, from, i - 1)>> \o StyleFunctions(s, i + 1, i + 1)
  ELSE StyleFunctions(s, from, i + 1)

\* the name of a function: what precedes its "("
FunctionName(fn) == SubSeq(fn, 1, (CHOOSE i \in 1..Len(fn) : fn[i] = "(" /\ \A j \in 1..(i - 1) : fn[j] # "(") - 1)

IsPassThrough(fn) == FunctionName(fn) \notin finetuneFilterNames

\* C20: the functions of the preset whose name is none of brightness, contrast,
\* saturate, sepia appear in the effective style unchanged and in preset order.
C20_StylePassThrough ==
  lastOp = "combinedFilterStyle" =>
    ret[1].otherFilters = SelectSeq(StyleFunctions(call.activeFilter.style, 1, 1), IsPassThrough)

\* ------------------------------------------------------------------------
\* Properties of the wheel and two-pointer gestures (Spec)
\* ------------------------------------------------------------------------
\* the image point (relative to the image centre) that the style of t shows at the
\* point v of the container: translate, rotate, scale and flip undone in turn
UnderPointer(t, v) ==
  Point(Div(Div(Add(Mul(Sub(v.x, t.x), MathCos(-t.rotation)),
                    Neg(Mul(Sub(v.y, t.y), MathSin(-t.rotation)))),
                t.scale), FlipSign(t.flipX)),
        Div(Div(Add(Mul(Sub(v.x, t.x), MathSin(-t.rotation)),
                    Mul(Sub(v.y, t.y), MathCos(-t.rotation))),
                t.scale), FlipSign(t.flipY)))

\* the transform t lies strictly inside the limits of clampTransform, so the clamp
\* that produced it corrected neither the scale nor the pan
Uncorrected(t, ib, fb) ==
  \/ ~Known(ib)
  \/ ~Known(fb)
  \/ /\ Lt(minScaleToCover(ib, fb, t.rotation), t.scale)
     /\ Lt(t.scale, R(MAX_ZOOM))
     /\ Lt(MathAbs(t.x),
           panRange(rotatedImgWidth(Mul(R(ib[1].width), t.scale),
                                    Mul(R(ib[1].height), t.scale), t.rotation),
                    R(fb[1].width)))
     /\ Lt(MathAbs(t.y),
           panRange(rotatedImgHeight(Mul(R(ib[1].width), t.scale),
                                     Mul(R(ib[1].height), t.scale), t.rotation),
                    R(fb[1].height)))

\* C15: after a wheel event at pointer position p that the clamp did not correct, the
\* image point shown at p before the event is shown at p after it, and the new scale
\* is the old scale times (1 - deltaY * 0.001).
C15_WheelKeepsPivot ==
  [][\A d \in WheelDeltas, p \in ClientPoints :
       ( /\ lastOp' = "wheel"
         /\ Uncorrected(transform', imageBounds', frameBounds')
         /\ IsFinite(transform.scale) /\ transform.scale # R(0)
         /\ IsFinite(transform.x) /\ IsFinite(transform.y)
         /\ onWheel(d, p) )
       => /\ transform'.scale = Mul(transform.scale, Q(1000 - d, 1000))
          /\ ApplyMatrix(imageStyle(transform'),
                         UnderPointer(transform, interactionState'.pivot))
               = interactionState'.pivot
          /\ interactionState'.pivot =
               Point(Sub(R(p.x), Div(R(ContainerRect.width), R(2))),
                     Sub(R(p.y), Div(R(ContainerRect.height), R(2))))]_vars

\* witness of C15: a fitted 1600x1200 image in an 800x600 frame zoomed in by a wheel
\* event away from the centre, the result strictly inside the limits
C15_Witness ==
  /\ lastOp = "wheel"
  /\ BoundsKnown
  /\ Uncorrected(transform, imageBounds, frameBounds)
  /\ transform.scale = R(1)
  /\ interactionState.pivot = Point(R(300), R(-200))
  /\ transform.x = R(-300)
  /\ transform.y = R(200)

\* the readings of a two-pointer event
TouchDist(tl) == MathHypot(tl[1].x - tl[2].x, tl[1].y - tl[2].y)

TouchCentre(tl) == Point(Q(tl[1].x + tl[2].x, 2), Q(tl[1].y + tl[2].y, 2))

TouchAngle(tl) == MathAtan2Deg(tl[1].y - tl[2].y, tl[1].x - tl[2].x)

\* C16: after every two-pointer move the distance and centroid baselines (and the
\* angle baseline when rotation by gesture is enabled) are that event's readings, and
\* the move's scale factor, angle delta and pan delta are taken against the baselines
\* the previous event left (seen where the clamp corrects nothing).
C16_PinchIncremental ==
  [][\A tl \in TouchLists :
       ( /\ lastOp' = "touchMove"
         /\ isInteracting
         /\ Len(tl) = 2
         /\ onTouchMove(tl) )
       => /\ interactionState'.lastTouchDist = TouchDist(tl)
          /\ interactionState'.lastPanPosition = TouchCentre(tl)
          /\ rotationGestureEnabled => interactionState'.lastTouchAngle = TouchAngle(tl)
          /\ Uncorrected(transform', imageBounds', frameBounds') =>
               /\ transform'.scale =
                    Mul(transform.scale, Div(TouchDist(tl), interactionState.lastTouchDist))
               /\ rotationGestureEnabled =>
                    \E turns \in {-1, 0, 1} :
                      transform'.rotation =
                        transform.rotation + TouchAngle(tl)
                          - interactionState.lastTouchAngle + turns * Deg(360)
               /\ ~rotationGestureEnabled => transform'.rotation = transform.rotation
               /\ transform'.x =
                    Add(Add(interactionState'.pivot.x,
                            Mul(Sub(transform.x, interactionState'.pivot.x),
                                Div(TouchDist(tl), interactionState.lastTouchDist))),
                        Sub(TouchCentre(tl).x, interactionState.lastPanPosition.x))]_vars

\* witness of C16: with the rotation tool, a two-pointer move 200 apart at 53.13
\* degrees after a start 100 apart at 0 degrees: scale 2, rotation 53.13
C16_Witness ==
  /\ lastOp = "touchMove"
  /\ isInteracting
  /\ activeTool = "rotation"
  /\ interactionState.lastTouchDist = R(200)
  /\ interactionState.lastTouchAngle = Deg53
  /\ interactionState.lastPanPosition = Point(R(600), R(400))
  /\ transform.scale = R(2)
  /\ transform.rotation = Deg53

\* ------------------------------------------------------------------------
\* Editor: stickers, strokes and the pointer handlers of the container
\* ------------------------------------------------------------------------
\* number of editing events in one run of the sticker and drawing specifications
MaxEdits == 8

\* number of stickers added in one run
MaxStickers == 2

\* bookkeeping shared by the editing events
Edit(name) ==
  /\ steps < MaxEdits
  /\ ~crashed
  /\ steps' = steps + 1
  /\ lastOp' = name
  /\ UNCHANGED <<call, ret>>

boundsVars ==
  <<imageBounds, frameBounds, hasBeenInitialized, imageSrc, pendingLoads, imageFresh, fitLog>>

styleVars == <<activeFilter, activeFrame, finetuneSettings>>

exportVars == <<isProcessing, finalImage, printJob, bodyContainers, alerts>>

\* the point of a mouse or touch event relative to the container centre
ViewPoint(p) ==
  Point(Sub(Sub(R(p.x), R(ContainerRect.left)), Div(R(ContainerRect.width), R(2))),
        Sub(Sub(R(p.y), R(ContainerRect.top)), Div(R(ContainerRect.height), R(2))))

handleAddSticker ==
  LET stickerSize == IF Known(frameBounds)
                     THEN MathMax(R(80), Mul(R(frameBounds[1].width), Q(2, 10)))
                     ELSE R(120)
      newSticker == [id |-> Len(stickers) + 1, x |-> R(0), y |-> R(0),
                     width |-> stickerSize, height |-> stickerSize,
                     rotation |-> 0, scale |-> R(1)]
  IN  /\ Edit("addSticker")
      /\ Len(stickers) < MaxStickers
      /\ stickers' = Append(stickers, newSticker)
      /\ UNCHANGED <<transform, isInteracting, interactionState, activeTool, draggingSticker,
                     drawingPaths, isDrawing, crashed>>
      /\ UNCHANGED <<boundsVars, styleVars, exportVars>>

\* the dragged sticker at the proposed position, clamped to the frame
clampSticker(sticker, newX, newY, fb) ==
  [sticker EXCEPT
     !.x = MathMax(Add(Neg(Div(R(fb[1].width), R(2))),
                       Div(Mul(sticker.width, sticker.scale), R(2))),
                   MathMin(newX, Sub(Div(R(fb[1].width), R(2)),
                                     Div(Mul(sticker.width, sticker.scale), R(2))))),
     !.y = MathMax(Add(Neg(Div(R(fb[1].height), R(2))),
                       Div(Mul(sticker.height, sticker.scale), R(2))),
                   MathMin(newY, Sub(Div(R(fb[1].height), R(2)),
                                     Div(Mul(sticker.height, sticker.scale), R(2)))))]

\* handleDrawingStart, the tool being annotate; the field ended of a path is history:
\* the interaction that drew the path has ended
handleDrawingStart(p) ==
  IF ~Known(imageBounds)
  THEN UNCHANGED <<isDrawing, drawingPaths>>
  ELSE /\ isDrawing' = TRUE
       /\ drawingPaths' =
            Append(drawingPaths,
                   [points |-> <<getPointInImageSpace(ViewPoint(p), transform, imageBounds)>>,
                    ended |-> FALSE])

\* handleDrawingMove, the tool being annotate
handleDrawingMove(p) ==
  IF ~isDrawing \/ ~Known(imageBounds)
  THEN UNCHANGED <<drawingPaths, crashed>>
  ELSE IF Len(drawingPaths) = 0
  THEN crashed' = TRUE /\ UNCHANGED drawingPaths
  ELSE /\ drawingPaths' =
            [drawingPaths EXCEPT ![Len(drawingPaths)].points =
               Append(@, getPointInImageSpace(ViewPoint(p), transform, imageBounds))]
       /\ UNCHANGED crashed

\* handleMouseDown; target is the id of the sticker under the pointer, 0 for none
handleMouseDown(target, p) ==
  /\ Edit("mouseDown")
  /\ target = 0 \/ (target \in 1..Len(stickers) /\ activeTool # "annotate")
  /\ IF target # 0
     THEN /\ draggingSticker' =
               << [id |-> target, startX |-> stickers[target].x, startY |-> stickers[target].y,
                   mouseStartX |-> R(p.x), mouseStartY |-> R(p.y)] >>
          /\ UNCHANGED <<isDrawing, drawingPaths, isInteracting, interactionState>>
     ELSE IF activeTool = "annotate"
     THEN /\ handleDrawingStart(p)
          /\ UNCHANGED <<draggingSticker, isInteracting, interactionState>>
     ELSE /\ isInteracting' = TRUE
          /\ interactionState' =
               [interactionState EXCEPT !.lastPanPosition = Point(R(p.x), R(p.y)),
                                        !.recorded = {"position"}]
          /\ UNCHANGED <<draggingSticker, isDrawing, drawingPaths>>
  /\ UNCHANGED <<transform, activeTool, stickers, crashed>>
  /\ UNCHANGED <<boundsVars, styleVars, exportVars>>

handleMouseMove(p) ==
  /\ Edit("mouseMove")
  /\ IF draggingSticker # << >> /\ Known(frameBounds)
     THEN LET d == draggingSticker[1]
              newX == Add(d.startX, Sub(R(p.x), d.mouseStartX))
              newY == Add(d.startY, Sub(R(p.y), d.mouseStartY))
          IN  /\ stickers' =
                   [i \in 1..Len(stickers) |->
                      IF stickers[i].id # d.id THEN stickers[i]
                      ELSE clampSticker(stickers[i], newX, newY, frameBounds)]
              /\ UNCHANGED <<drawingPaths, crashed, transform, interactionState>>
     ELSE IF activeTool = "annotate"
     THEN /\ handleDrawingMove(p)
          /\ UNCHANGED <<stickers, transform, interactionState>>
     ELSE /\ IF ~isInteracting
             THEN UNCHANGED <<transform, interactionState>>
             ELSE /\ interactionState' =
                       [interactionState EXCEPT !.lastPanPosition = Point(R(p.x), R(p.y))]
                  /\ transform' =
                       clampNow([transform EXCEPT
                                   !.x = Add(transform.x,
                                             Sub(R(p.x), interactionState.lastPanPosition.x)),
                                   !.y = Add(transform.y,
                                             Sub(R(p.y), interactionState.lastPanPosition.y))],
                                interactionState.pivot)
          /\ UNCHANGED <<stickers, drawingPaths, crashed>>
  /\ UNCHANGED <<isInteracting, activeTool, draggingSticker, isDrawing>>
  /\ UNCHANGED <<boundsVars, styleVars, exportVars>>

\* handleMouseUp, also run by handleMouseLeave
handleMouseUp ==
  /\ Edit("mouseUp")
  /\ draggingSticker' = << >>
  /\ IF activeTool = "annotate"
     THEN /\ isDrawing' = FALSE
          /\ drawingPaths' =
               IF isDrawing /\ Len(drawingPaths) > 0
               THEN [drawingPaths EXCEPT ![Len(drawingPaths)].ended = TRUE]
               ELSE drawingPaths
          /\ UNCHANGED <<isInteracting, transform>>
     ELSE /\ isInteracting' = FALSE
          /\ transform' = clampNow(transform, interactionState.pivot)
          /\ UNCHANGED <<isDrawing, drawingPaths>>
  /\ UNCHANGED <<interactionState, activeTool, stickers, crashed>>
  /\ UNCHANGED <<boundsVars, styleVars, exportVars>>

\* the Undo button of the annotate panel, disabled while there is no path
UndoPath ==
  /\ Edit("undo")
  /\ Len(drawingPaths) > 0
  /\ drawingPaths' = SubSeq(drawingPaths, 1, Len(drawingPaths) - 1)
  /\ UNCHANGED <<transform, isInteracting, interactionState, activeTool, stickers,
                 draggingSticker, isDrawing, crashed>>
  /\ UNCHANGED <<boundsVars, styleVars, exportVars>>

\* the Clear All button of the annotate panel, disabled while there is no path
ClearPaths ==
  /\ Edit("clear")
  /\ Len(drawingPaths) > 0
  /\ drawingPaths' = << >>
  /\ UNCHANGED <<transform, isInteracting, interactionState, activeTool, stickers,
                 draggingSticker, isDrawing, crashed>>
  /\ UNCHANGED <<boundsVars, styleVars, exportVars>>

\* ------------------------------------------------------------------------
\* Stickers: adding and dragging, the frame being resized in between
\* ------------------------------------------------------------------------
\* the frame in a large and in a small window (aspect ratio 4/3 and 16/9)
StickerFrameSizes == {Bounds(1000, 750), Bounds(320, 180)}

DragPoints == {Point(500, 500), Point(1000, 300), Point(100, 900)}

NextSticker ==
  \/ \E fb \in StickerFrameSizes : FrameResize(fb)
  \/ handleAddSticker
  \/ \E target \in 0..MaxStickers, p \in DragPoints : handleMouseDown(target, p)
  \/ \E p \in DragPoints : handleMouseMove(p)
  \/ handleMouseUp

SpecSticker == Init /\ [][NextSticker]_vars

\* C17: the position a drag move gives the dragged sticker keeps its whole box inside
\* the frame, and a proposed box passing the right edge is put exactly at
\* frameWidth/2 - width*scale/2.
C17_StickerInsideFrame ==
  [][\A p \in DragPoints :
       ( /\ draggingSticker # << >>
         /\ Known(frameBounds)
         /\ handleMouseMove(p) )
       => LET d == draggingSticker[1]
              moved == stickers'[d.id]
              halfW == Div(Mul(moved.width, moved.scale), R(2))
              halfH == Div(Mul(moved.height, moved.scale), R(2))
              frameHalfW == Div(R(frameBounds[1].width), R(2))
              frameHalfH == Div(R(frameBounds[1].height), R(2))
          IN  /\ Le(Add(MathAbs(moved.x), halfW), frameHalfW)
              /\ Le(Add(MathAbs(moved.y), halfH), frameHalfH)
              /\ Lt(frameHalfW, Add(Add(d.startX, Sub(R(p.x), d.mouseStartX)), halfW))
                   => moved.x = Sub(frameHalfW, halfW)]_vars

\* ------------------------------------------------------------------------
\* Drawing: strokes started, extended and ended, undone and cleared
\* ------------------------------------------------------------------------
DrawPoints == {Point(500, 500), Point(800, 300)}

NextDraw ==
  \/ ImageLoaded(imageSrc)
  \/ SetActiveTool("annotate")
  \/ \E p \in DrawPoints : handleMouseDown(0, p)
  \/ \E p \in DrawPoints : handleMouseMove(p)
  \/ handleMouseUp
  \/ UndoPath
  \/ ClearPaths

SpecDraw == Init /\ [][NextDraw]_vars

\* C18: under every interleaving of stroke start, extend, end, undo and clear, no
\* step changes a path whose interaction has ended (it may only be removed), and an
\* extend never fails.
C18_EndedStrokeImmutable ==
  [][/\ ~crashed'
     /\ \A i \in 1..Len(drawingPaths) :
          (drawingPaths[i].ended /\ i <= Len(drawingPaths'))
            => drawingPaths'[i] = drawingPaths[i]]_vars

\* ------------------------------------------------------------------------
\* Export: handlePrint, an async function suspended on the image load, on the
\* sticker loads and, with a frame, on html2canvas
\* ------------------------------------------------------------------------
FRAMES ==
  << [name |-> "None", class |-> ""],
     [name |-> "Simple White", class |-> "border-[8px] border-white"],
     [name |-> "Simple Black", class |-> "border-[8px] border-black"],
     [name |-> "Elegant", class |-> "border-[16px] border-white shadow-lg shadow-black/50"],
     [name |-> "Wooden", class |-> "border-[16px] border-[#855B32] ring-4 ring-inset ring-[#5A3D20]"],
     [name |-> "Polaroid", class |-> "border-solid border-gray-100 border-x-[10px] border-t-[10px] border-b-[50px] shadow-md shadow-black/30"],
     [name |-> "Thin Line", class |-> "border-2 border-white"],
     [name |-> "Grunge", class |-> "border-[12px] border-double border-gray-500"] >>

FrameClass(name) ==
  FRAMES[CHOOSE i \in 1..Len(FRAMES) : FRAMES[i].name = name].class

editVars ==
  <<transform, isInteracting, interactionState, activeTool, stickers, draggingSticker,
    drawingPaths, isDrawing, crashed>>

\* the Filters panel
SetActiveFilter(i) ==
  /\ Edit("setActiveFilter")
  /\ activeFilter' = i
  /\ UNCHANGED <<activeFrame, finetuneSettings, editVars, boundsVars, exportVars>>

\* the Frames panel
SetActiveFrame(name) ==
  /\ Edit("setActiveFrame")
  /\ activeFrame' = name
  /\ UNCHANGED <<activeFilter, finetuneSettings, editVars, boundsVars, exportVars>>

\* a finetune slider
SetFinetune(name, value) ==
  /\ Edit("setFinetune")
  /\ finetuneSettings' = [finetuneSettings EXCEPT ![name] = value]
  /\ UNCHANGED <<activeFilter, activeFrame, editVars, boundsVars, exportVars>>

\* FinalImageModal's onClose
CloseFinalImage ==
  /\ Edit("closeFinalImage")
  /\ finalImage # << >>
  /\ finalImage' = << >>
  /\ UNCHANGED <<isProcessing, printJob, bodyContainers, alerts>>
  /\ UNCHANGED <<editVars, boundsVars, styleVars>>

\* the drawing canvas after the layout effect has redrawn it: every path of two or
\* more points, in order
liveDrawingCanvas(paths) ==
  [i \in 1..Len(SelectSeq(paths, LAMBDA path : Len(path.points) >= 2)) |->
     SelectSeq(paths, LAMBDA path : Len(path.points) >= 2)[i].points]

\* a content canvas nothing has been drawn on; filter << >> is 'none'; order lists
\* the draws in the order they were made
EmptySurface ==
  [width |-> 0, height |-> 0, image |-> << >>, strokes |-> << >>, vignette |-> << >>,
   stickers |-> << >>, order |-> << >>]

\* the filter functions a canvas context accepts
CssFilterFunctions ==
  { <<"b", "l", "u", "r">>,
    <<"b", "r", "i", "g", "h", "t", "n", "e", "s", "s">>,
    <<"c", "o", "n", "t", "r", "a", "s", "t">>,
    <<"d", "r", "o", "p", "-", "s", "h", "a", "d", "o", "w">>,
    <<"g", "r", "a", "y", "s", "c", "a", "l", "e">>,
    <<"h", "u", "e", "-", "r", "o", "t", "a", "t", "e">>,
    <<"i", "n", "v", "e", "r", "t">>,
    <<"o", "p", "a", "c", "i", "t", "y">>,
    <<"s", "a", "t", "u", "r", "a", "t", "e">>,
    <<"s", "e", "p", "i", "a">> }

\* ctx.filter after ctx.filter = combinedFilterStyle on a fresh context: the style,
\* or still 'none' (<< >>) when the string is not a list of filter functions, an
\* assignment the canvas ignores
canvasFilter(style) ==
  IF \A i \in 1..Len(style.otherFilters) :
        FunctionName(style.otherFilters[i]) \in CssFilterFunctions
  THEN <<style>>
  ELSE << >>

\* handlePrint after the image load: the image and, when the captured path list is
\* not empty, the drawing canvas as it is now, both drawn between ctx.save and
\* ctx.restore with ctx.filter = combinedFilterStyle; then ctx.filter = 'none' and
\* the vignette
drawContent(job, filter, canvas) ==
  [width    |-> job.outputContentWidth,
   height   |-> job.outputContentHeight,
   image    |-> <<[filter |-> filter, transform |-> job.transform,
                   imageBounds |-> job.imageBounds]>>,
   strokes  |-> IF Len(job.drawingPaths) > 0
                THEN <<[filter |-> filter, canvas |-> canvas]>>
                ELSE << >>,
   vignette |-> IF job.finetuneSettings.vignette > 0
                THEN <<[filter |-> << >>, strength |-> job.finetuneSettings.vignette]>>
                ELSE << >>,
   stickers |-> << >>,
   order    |-> <<"image">> \o
                (IF Len(job.drawingPaths) > 0 THEN <<"strokes">> ELSE << >>) \o
                (IF job.finetuneSettings.vignette > 0 THEN <<"vignette">> ELSE << >>)]

\* mutant: the stickers are drawn before the image
drawStickersFirst(surface, job) ==
  [surface EXCEPT
     !.stickers =
        [i \in 1..Len(job.stickers) |->
           [id |-> job.stickers[i].id,
            drawX |-> Add(Q(surface.width, 2),
                          Mul(job.stickers[i].x, R(outputResolutionMultiplier))),
            drawY |-> Add(Q(surface.height, 2),
                          Mul(job.stickers[i].y, R(outputResolutionMultiplier))),
            drawWidth |-> Mul(Mul(job.stickers[i].width, job.stickers[i].scale),
                              R(outputResolutionMultiplier)),
            drawHeight |-> Mul(Mul(job.stickers[i].height, job.stickers[i].scale),
                               R(outputResolutionMultiplier)),
            rotation |-> job.stickers[i].rotation]],
     !.order = [i \in 1..Len(job.stickers) |-> "sticker"] \o surface.order]

\* handlePrint after the sticker loads: stickers.forEach draws the captured stickers
drawStickers(surface, job) ==
  [surface EXCEPT
     !.stickers =
        [i \in 1..Len(job.stickers) |->
           [id |-> job.stickers[i].id,
            drawX |-> Add(Q(surface.width, 2),
                          Mul(job.stickers[i].x, R(outputResolutionMultiplier))),
            drawY |-> Add(Q(surface.height, 2),
                          Mul(job.stickers[i].y, R(outputResolutionMultiplier))),
            drawWidth |-> Mul(Mul(job.stickers[i].width, job.stickers[i].scale),
                              R(outputResolutionMultiplier)),
            drawHeight |-> Mul(Mul(job.stickers[i].height, job.stickers[i].scale),
                               R(outputResolutionMultiplier)),
            rotation |-> job.stickers[i].rotation]],
     !.order = surface.order \o [i \in 1..Len(job.stickers) |-> "sticker"]]

\* the image handed to setFinalImage: the content canvas and the frame around it;
\* the field job is history: the state captured by the call that produced it
dataURL(job, surface, frame) ==
  [surface |-> surface,
   frame |-> frame,
   order |-> IF frame = "" THEN surface.order ELSE Append(surface.order, "frame"),
   job |-> [job EXCEPT !.pc = "done", !.surface = EmptySurface,
                       !.finalImageContainer = FALSE]]

\* the Done button: disabled while processing or without image bounds
handlePrint ==
  /\ Edit("handlePrint")
  /\ ~isProcessing
  /\ Known(imageBounds)
  /\ isProcessing' = TRUE
  /\ printJob' = <<[pc |-> "image", transform |-> transform, imageBounds |-> imageBounds,
                    outputContentWidth |->
                      IF Known(frameBounds)
                      THEN frameBounds[1].width * outputResolutionMultiplier ELSE 0,
                    outputContentHeight |->
                      IF Known(frameBounds)
                      THEN frameBounds[1].height * outputResolutionMultiplier ELSE 0,
                    stickers |-> stickers, drawingPaths |-> drawingPaths,
                    activeFilter |-> activeFilter,
                    finetuneSettings |-> finetuneSettings,
                    activeFrame |-> activeFrame, surface |-> EmptySurface,
                    finalImageContainer |-> FALSE]>>
  /\ UNCHANGED <<finalImage, bodyContainers, alerts>>
  /\ UNCHANGED <<editVars, boundsVars, styleVars>>

\* the finally block
printFinallyKeepsProcessing(job) ==
  /\ bodyContainers' = IF job.finalImageContainer THEN bodyContainers - 1 ELSE bodyContainers
  /\ isProcessing' = isProcessing
  /\ printJob' = << >>

printFinally(job) ==
  /\ bodyContainers' = IF job.finalImageContainer THEN bodyContainers - 1 ELSE bodyContainers
  /\ isProcessing' = FALSE
  /\ printJob' = << >>

\* the catch block, then the finally block
printCatch(job) ==
  /\ alerts' = alerts + 1
  /\ UNCHANGED finalImage
  /\ printFinally(job)

\* image.onload of the export's own Image
PrintImageLoaded ==
  /\ Edit("printImageLoaded")
  /\ printJob # << >>
  /\ printJob[1].pc = "image"
  /\ printJob' =
       <<[printJob[1] EXCEPT
            !.pc = "stickers",
            !.surface = drawContent(printJob[1],
                                    canvasFilter(
                                      combinedFilterStyle(FILTERS[printJob[1].activeFilter],
                                                          printJob[1].finetuneSettings)),
                                    liveDrawingCanvas(drawingPaths))]>>
  /\ UNCHANGED <<isProcessing, finalImage, bodyContainers, alerts>>
  /\ UNCHANGED <<editVars, boundsVars, styleVars>>

\* image.onerror of the export's own Image
PrintImageFailed ==
  /\ Edit("printImageFailed")
  /\ printJob # << >>
  /\ printJob[1].pc = "image"
  /\ printCatch(printJob[1])
  /\ UNCHANGED <<editVars, boundsVars, styleVars>>

\* Promise.all of the sticker loads resolves: stickers drawn, toDataURL, then either
\* the frame container is appended to the body and html2canvas awaited, or the
\* content canvas is the final image
PrintStickersLoaded ==
  /\ Edit("printStickersLoaded")
  /\ printJob # << >>
  /\ printJob[1].pc = "stickers"
  /\ IF FrameClass(printJob[1].activeFrame) # "" /\ printJob[1].activeFrame # "None"
     THEN /\ printJob' = <<[printJob[1] EXCEPT
                              !.pc = "frame",
                              !.surface = drawStickers(printJob[1].surface, printJob[1]),
                              !.finalImageContainer = TRUE]>>
          /\ bodyContainers' = bodyContainers + 1
          /\ UNCHANGED <<isProcessing, finalImage>>
     ELSE /\ finalImage' = <<dataURL(printJob[1],
                                      drawStickers(printJob[1].surface, printJob[1]), "")>>
          /\ printFinally(printJob[1])
  /\ UNCHANGED alerts
  /\ UNCHANGED <<editVars, boundsVars, styleVars>>

\* a sticker's onerror: Promise.all rejects
PrintStickersFailed ==
  /\ Edit("printStickersFailed")
  /\ printJob # << >>
  /\ printJob[1].pc = "stickers"
  /\ Len(printJob[1].stickers) > 0
  /\ printCatch(printJob[1])
  /\ UNCHANGED <<editVars, boundsVars, styleVars>>

\* html2canvas resolves
PrintFrameRendered ==
  /\ Edit("printFrameRendered")
  /\ printJob # << >>
  /\ printJob[1].pc = "frame"
  /\ finalImage' = <<dataURL(printJob[1], printJob[1].surface,
                              FrameClass(printJob[1].activeFrame))>>
  /\ printFinally(printJob[1])
  /\ UNCHANGED alerts
  /\ UNCHANGED <<editVars, boundsVars, styleVars>>

\* html2canvas rejects
PrintFrameFailed ==
  /\ Edit("printFrameFailed")
  /\ printJob # << >>
  /\ printJob[1].pc = "frame"
  /\ printCatch(printJob[1])
  /\ UNCHANGED <<editVars, boundsVars, styleVars>>

ExportPoints == {Point(500, 500)}

ExportFilters == {3, 7}

ExportFrames == {"None", "Simple White"}

ExportVignettes == {0, 50}

NextExport ==
  \/ ImageLoaded(imageSrc)
  \/ SetActiveTool("annotate")
  \/ \E p \in ExportPoints : handleMouseDown(0, p)
  \/ \E p \in ExportPoints : handleMouseMove(p)
  \/ handleMouseUp
  \/ UndoPath
  \/ handleAddSticker
  \/ \E i \in ExportFilters : SetActiveFilter(i)
  \/ \E name \in ExportFrames : SetActiveFrame(name)
  \/ \E value \in ExportVignettes : SetFinetune("vignette", value)
  \/ FrameResize(Bounds(800, 600))
  \/ CloseFinalImage
  \/ handlePrint
  \/ PrintImageLoaded
  \/ PrintImageFailed
  \/ PrintStickersLoaded
  \/ PrintStickersFailed
  \/ PrintFrameRendered
  \/ PrintFrameFailed

SpecExport == Init /\ [][NextExport]_vars

\* C12: whenever the stroke layer has been drawn onto an export's content canvas,
\* in an export in flight or in a published image, ctx.filter was 'none' at that draw.
C12_StrokesDrawnUnfiltered ==
  /\ printJob # << >> =>
       \A i \in 1..Len(printJob[1].surface.strokes) :
          printJob[1].surface.strokes[i].filter = << >>
  /\ finalImage # << >> =>
       \A i \in 1..Len(finalImage[1].surface.strokes) :
          finalImage[1].surface.strokes[i].filter = << >>

\* the content canvas rendered from the captured state alone
SnapshotSurface(job) ==
  drawStickers(drawContent(job,
                           canvasFilter(combinedFilterStyle(FILTERS[job.activeFilter],
                                                            job.finetuneSettings)),
                           liveDrawingCanvas(job.drawingPaths)),
               job)

\* C13: a published image is a function of the state captured when its handlePrint
\* began: its content canvas is the one rendered from the captured transform, style,
\* paths and stickers, whatever was edited while the export was suspended.
C13_ExportFromSnapshot ==
  finalImage # << >> => finalImage[1].surface = SnapshotSurface(finalImage[1].job)

\* C14: when the image load or a sticker load of an export fails, finalImage keeps
\* its value, one error is reported, no temporary container is left in the body,
\* isProcessing is false again and no export is in flight, so the Done button is
\* enabled.
C14_ExportFailsAsWhole ==
  [][lastOp' \in {"printImageFailed", "printStickersFailed"} =>
       /\ finalImage' = finalImage
       /\ alerts' = alerts + 1
       /\ bodyContainers' = 0
       /\ ~isProcessing'
       /\ printJob' = << >>
       /\ Known(imageBounds')]_vars

\* a sticker load fails in a second export, the image of the first one still shown
C14_Witness ==
  /\ lastOp = "printStickersFailed"
  /\ finalImage # << >>
  /\ alerts = 1
  /\ ~isProcessing

\* ------------------------------------------------------------------------
\* clampTransform and resetTransform on degenerate bounds
\* ------------------------------------------------------------------------
\* bounds with a zero width or height, and one without
DegenerateImages == {Bounds(0, 1200), Bounds(1600, 0), Bounds(0, 0), Bounds(1600, 1200)}

DegenerateFrames == {Bounds(0, 600), Bounds(800, 0), Bounds(0, 0), Bounds(800, 600)}

DegenerateCalls ==
  { c \in [t : [x : {R(0), R(300)}, y : {R(0), R(-200)}, scale : {Q(1, 4), R(1), R(10)},
                rotation : {Deg(0), Deg53, Deg(90)}, flipX : {FALSE}, flipY : {FALSE}],
           ib : DegenerateImages,
           fb : DegenerateFrames,
           pivot : {ZeroPoint, Point(R(300), R(-200))}] :
      c.ib[1].width = 0 \/ c.ib[1].height = 0 \/ c.fb[1].width = 0 \/ c.fb[1].height = 0 }

InitDegenerate ==
  /\ EditorInit
  /\ call \in DegenerateCalls
  /\ ret = << >>

SpecDegenerate == InitDegenerate /\ [][NextClamp]_vars

\* C21: with a zero image or frame dimension, the minimum covering scale is finite
\* (the zero dimension imposes no constraint) and the transform clampTransform or
\* resetTransform returns has finite scale, x and y.
C21_DegenerateGuarded ==
  (lastOp \in {"clampTransform", "resetTransform"} /\ Len(ret) >= 1) =>
     /\ IsFinite(minScaleToCover(call.ib, call.fb, call.t.rotation))
     /\ IsFinite(ret[1].scale)
     /\ IsFinite(ret[1].x)
     /\ IsFinite(ret[1].y)

\* ------------------------------------------------------------------------
\* Rotation, release and press (Spec)
\* ------------------------------------------------------------------------
\* input rotations from -540 to 593.13 degrees, on the tabulated directions
AngleSamples == { Deg(90) * k + o : k \in (-6)..6, o \in {0, Deg37, Deg53} }

InNormalInterval(r) == -Deg(180) < r /\ r <= Deg(180)

\* the rotation clampTransform returns for input rotation r, bounds known (line 75)
clampedRotation(r) == normalizeAngle(r)

\* C22: for every input rotation r, clampTransform returns a rotation in (-180, 180]
\* congruent to r modulo 360 (-180 becomes 180, 270 becomes -90), and with bounds
\* known the stored rotation lies in that interval in every reachable state.
C22_RotationNormalized ==
  /\ \A r \in AngleSamples :
        /\ InNormalInterval(clampedRotation(r))
        /\ (clampedRotation(r) - r) % Deg(360) = 0
  /\ clampedRotation(-Deg(180)) = Deg(180)
  /\ clampedRotation(Deg(270)) = -Deg(90)
  /\ BoundsKnown => InNormalInterval(transform.rotation)

\* witness of C22: with bounds known, the slider set -180 (stored as 180) and a
\* quarter turn brought the rotation to 270, stored as -90
C22_Witness ==
  /\ BoundsKnown
  /\ lastOp = "rotateBy"
  /\ transform.rotation = -Deg(90)

BaselinesUsed(touches) ==
  IF Len(touches) = 1 THEN {"position"}
  ELSE IF Len(touches) = 2
  THEN (IF rotationGestureEnabled THEN {"position", "distance", "angle"}
        ELSE {"position", "distance"})
  ELSE {}

\* C24: every move of an interaction reads only baselines (last position, distance,
\* angle) written at or after the press that started it: never one left by an
\* earlier interaction and never an initial zero.
C24_PressReinitializes ==
  [][/\ (isInteracting /\ lastOp' = "mouseMove") =>
          "position" \in interactionState.recorded
     /\ \A tl \in TouchLists :
          (isInteracting /\ lastOp' = "touchMove" /\ onTouchMove(tl))
            => BaselinesUsed(tl) \subseteq interactionState.recorded]_vars

\* the draws of an export of the captured state, in the claimed order
StageOrder(job) ==
  <<"image">> \o
  (IF Len(job.drawingPaths) > 0 THEN <<"strokes">> ELSE << >>) \o
  (IF job.finetuneSettings.vignette > 0 THEN <<"vignette">> ELSE << >>) \o
  [i \in 1..Len(job.stickers) |-> "sticker"] \o
  (IF job.activeFrame # "None" THEN <<"frame">> ELSE << >>)

\* C25: in every published export the surface has the captured frame size times 2,
\* and the draws are: the image, the annotation layer (when there are paths), the
\* vignette (only if its strength is > 0), every sticker in list order at its
\* frame-relative position times 2 from the surface centre, the frame last (only
\* if a frame other than None is selected).
C25_DrawOrder ==
  finalImage # << >> =>
    /\ finalImage[1].surface.width = finalImage[1].job.outputContentWidth
    /\ finalImage[1].surface.height = finalImage[1].job.outputContentHeight
    /\ finalImage[1].order = StageOrder(finalImage[1].job)
    /\ Len(finalImage[1].surface.stickers) = Len(finalImage[1].job.stickers)
    /\ \A i \in 1..Len(finalImage[1].job.stickers) :
          /\ finalImage[1].surface.stickers[i].id = finalImage[1].job.stickers[i].id
          /\ finalImage[1].surface.stickers[i].drawX =
               Add(Q(finalImage[1].surface.width, 2),
                   Mul(R(2), finalImage[1].job.stickers[i].x))
          /\ finalImage[1].surface.stickers[i].drawY =
               Add(Q(finalImage[1].surface.height, 2),
                   Mul(R(2), finalImage[1].job.stickers[i].y))

\* witness of C25: an export with vignette, a sticker and a frame has been published
C25_Witness ==
  /\ finalImage # << >>
  /\ finalImage[1].order = <<"image", "vignette", "sticker", "frame">>

\* C26: rotateBy, setRotation and flip each leave the recorded pivot at the frame
\* centre (0, 0), the pivot their clampTransform call re-centres around.
C26_MutatorsPivotCentre ==
  [][lastOp' \in {"rotateBy", "setRotation", "flip"} =>
       interactionState'.pivot = ZeroPoint]_vars

\* C27: from the fitted state on (both bounds known, the initial fit done), the
\* stored x, y and scale are finite and the scale is positive, whatever wheel
\* events, pan moves and two-pointer gestures follow.
C27_TransformFinite ==
  (BoundsKnown /\ hasBeenInitialized) =>
     /\ IsFinite(transform.x)
     /\ IsFinite(transform.y)
     /\ IsFinite(transform.scale)
     /\ Lt(R(0), transform.scale)

\* ------------------------------------------------------------------------
\* Tools: the active tool changes between pointer events
\* ------------------------------------------------------------------------
\* a toolbar button, the Done button of a panel, or handleSmartEnhance's
\* setActiveTool once its request has returned
SelectTool(tool) ==
  /\ Edit("setActiveTool")
  /\ activeTool' = tool
  /\ UNCHANGED <<transform, isInteracting, interactionState, stickers, draggingSticker,
                 drawingPaths, isDrawing, crashed>>
  /\ UNCHANGED <<boundsVars, styleVars, exportVars>>

EditorTools == {"crop", "annotate", "filter"}

NextTool ==
  \/ ImageLoaded(imageSrc)
  \/ \E tool \in EditorTools : SelectTool(tool)
  \/ \E p \in DrawPoints : handleMouseDown(0, p)
  \/ \E p \in DrawPoints : handleMouseMove(p)
  \/ handleMouseUp

SpecTool == Init /\ [][NextTool]_vars

\* C28: every release (mouse-up, mouse-leave, touch-end) leaves isDrawing false,
\* whatever tool is active when it arrives.
C28_ReleaseEndsDrawing ==
  [][lastOp' = "mouseUp" => ~isDrawing']_vars

\* ------------------------------------------------------------------------
\* Stickers and the pivot across frame-bounds changes
\* ------------------------------------------------------------------------
\* the sticker's box lies inside the frame fb
StickerInside(sticker, fb) ==
  /\ Le(Add(MathAbs(sticker.x), Div(Mul(sticker.width, sticker.scale), R(2))),
        Div(R(fb[1].width), R(2)))
  /\ Le(Add(MathAbs(sticker.y), Div(Mul(sticker.height, sticker.scale), R(2))),
        Div(R(fb[1].height), R(2)))

\* C29: in every reachable state with the frame measured, every sticker's box lies
\* inside the current frame.
C29_StickersStayInside ==
  Known(frameBounds) =>
    \A i \in 1..Len(stickers) : StickerInside(stickers[i], frameBounds)

\* the pivots a wheel event can leave in interactionState (pointer minus the
\* container's centre), and the centre
PivotSamples ==
  {ZeroPoint} \cup
  { Point(Sub(Sub(R(p.x), R(ContainerRect.left)), Div(R(ContainerRect.width), R(2))),
          Sub(Sub(R(p.y), R(ContainerRect.top)), Div(R(ContainerRect.height), R(2)))) :
      p \in ClientPoints }

\* C30: the transform stored by the re-clamp after a frame-bounds change is the
\* same whichever pivot the last wheel or pinch gesture recorded (a gesture has
\* recorded one): it is a function of the transform before the change and the
\* bounds alone.
C30_ReclampIgnoresPivot ==
  [][( /\ lastOp' = "frameResize"
       /\ Known(imageBounds)
       /\ hasBeenInitialized
       /\ interactionState.pivot # ZeroPoint
       /\ IsFinite(transform.x) /\ IsFinite(transform.y) /\ IsFinite(transform.scale) )
     => \A pv \in PivotSamples :
          transform' = clampTransform(transform, imageBounds, frameBounds', pv)]_vars

====
